---- MODULE Spec2Model ----
(***************************************************************************)
(* Model of the eLCA / Bonsai add-on: the four scene operators of          *)
(* __init__.py (LoadResults, LoadProject, ResetData, CreateIFCLibrary),    *)
(* the pickle/base64 hand-off of the element list between them, and the    *)
(* IFC emission of ifc_library_creator.py.                                 *)
(*                                                                         *)
(* Python strings are sequences of one-character strings, so that          *)
(* formatting, splitting and encoding are computed and not assumed.        *)
(* Python values are tagged records: None, str, float, list, dict, object. *)
(* Floats that denote a length are integers in units of 1e-5 m; the        *)
(* numeric part of a quantity string is an integer in hundredths.          *)
(***************************************************************************)
EXTENDS Integers, Sequences, FiniteSets, TLC

VARIABLES
    scene,      \* context.scene custom properties: name -> value, absent names not in DOMAIN
    exists,     \* the set of HTML paths that name a file on disk (Path.exists)
    disk,       \* IFC files on disk: output path -> entity sequence
    dependencies_installed, \* module-level flag of __init__.py
    last,       \* the most recent operator invocation: operator, argument, result, reports, scene before
    hist,       \* what has finished since the most recent ResetData
    panel_draw, \* the draw attribute of the host's panel classes: class name -> function
    original_draw_functions, \* _original_draw_functions: panel name -> function
    load_post,  \* bpy.app.handlers.load_post: the handlers, in order
    drawn       \* the functions the most recent panel draw called, in order, and whether it raised

\* the state the panel patch works on
patch == <<panel_draw, original_draw_functions, load_post, drawn>>

vars == <<scene, exists, disk, dependencies_installed, last, hist, patch>>

---------------------------------------------------------------------------
(* Characters and Python str operations                                    *)

Digits == <<"0","1","2","3","4","5","6","7","8","9">>
Lower == <<"a","b","c","d","e","f","g","h","i","j","k","l","m",
           "n","o","p","q","r","s","t","u","v","w","x","y","z">>
Upper == <<"A","B","C","D","E","F","G","H","I","J","K","L","M",
           "N","O","P","Q","R","S","T","U","V","W","X","Y","Z">>

Range(s) == {s[i] : i \in DOMAIN s}

IndexOf(s, c) == CHOOSE i \in DOMAIN s : s[i] = c

Chars == Range(Digits) \cup Range(Upper) \cup Range(Lower)
            \cup {" ", "+", ",", "-", ".", "/", "=", "_"}

\* ord(c) for the ASCII characters the model uses
OrdTable ==
    [c \in Chars |->
        IF c \in Range(Digits) THEN 47 + IndexOf(Digits, c)
        ELSE IF c \in Range(Upper) THEN 64 + IndexOf(Upper, c)
        ELSE IF c \in Range(Lower) THEN 96 + IndexOf(Lower, c)
        ELSE CASE c = " " -> 32 [] c = "+" -> 43 [] c = "," -> 44 [] c = "-" -> 45
               [] c = "." -> 46 [] c = "/" -> 47 [] c = "=" -> 61 [] c = "_" -> 95]

Ord(c) == OrdTable[c]

\* chr(n), defined where some modelled character has that code
ChrTable == [n \in {OrdTable[c] : c \in Chars} |-> CHOOSE c \in Chars : OrdTable[c] = n]

Chr(n) == ChrTable[n]

\* str(n) for n >= 0
RECURSIVE IntToStr(_)
IntToStr(n) ==
    IF n < 10 THEN <<Digits[n + 1]>>
    ELSE Append(IntToStr(n \div 10), Digits[(n % 10) + 1])

\* s.lower()
StrLower(s) ==
    [i \in DOMAIN s |-> IF s[i] \in Range(Upper) THEN Lower[IndexOf(Upper, s[i])] ELSE s[i]]

\* s.replace(a, b) for single characters
StrReplace(s, a, b) == [i \in DOMAIN s |-> IF s[i] = a THEN b ELSE s[i]]

\* s.split(): the maximal runs of non-whitespace characters
RECURSIVE SplitFrom(_, _, _, _)
SplitFrom(s, i, cur, acc) ==
    IF i > Len(s) THEN (IF cur = <<>> THEN acc ELSE Append(acc, cur))
    ELSE IF s[i] = " "
         THEN SplitFrom(s, i + 1, <<>>, IF cur = <<>> THEN acc ELSE Append(acc, cur))
         ELSE SplitFrom(s, i + 1, Append(cur, s[i]), acc)

StrSplit(s) == SplitFrom(s, 1, <<>>, <<>>)

\* Path(p).with_suffix(suffix): the text after the last dot of the path is replaced
LastDot(p) ==
    IF \E i \in DOMAIN p : p[i] = "."
    THEN CHOOSE i \in DOMAIN p : p[i] = "." /\ \A j \in DOMAIN p : p[j] = "." => j <= i
    ELSE 0

WithSuffix(p, suffix) ==
    IF LastDot(p) > 1 THEN SubSeq(p, 1, LastDot(p) - 1) \o suffix ELSE p \o suffix

---------------------------------------------------------------------------
(* Python values                                                           *)

PyNone == [t |-> "None"]
PyStr(s) == [t |-> "str", v |-> s]
PyFloat(n) == [t |-> "float", v |-> n]
PyList(s) == [t |-> "list", v |-> s]
PyDict(f) == [t |-> "dict", v |-> f]
PyObj(cls, state) == [t |-> "obj", c |-> cls, v |-> state]
\* a live reference into the parsed document: a value pickle cannot serialize
PyHandle == [t |-> "handle"]

\* d.get(k, default)
DictGet(d, k, default) == IF k \in DOMAIN d.v THEN d.v[k] ELSE default

\* truthiness of a Python value
Truthy(x) ==
    CASE x.t = "None" -> FALSE
      [] x.t = "str" -> x.v # <<>>
      [] x.t = "list" -> x.v # <<>>
      [] x.t = "float" -> x.v # 0
      [] x.t = "dict" -> DOMAIN x.v # {}
      [] OTHER -> TRUE

\* the dictionary keys and attribute names the two source files read
K ==
    [name |-> <<"n","a","m","e">>,
     quantity |-> <<"q","u","a","n","t","i","t","y">>,
     layer_thickness |-> <<"l","a","y","e","r","_","t","h","i","c","k","n","e","s","s">>,
     lifecycle_processes |-> <<"l","i","f","e","c","y","c","l","e","_","p","r","o","c","e","s","s","e","s">>,
     uuid |-> <<"u","u","i","d">>,
     process_name |-> <<"p","r","o","c","e","s","s","_","n","a","m","e">>,
     category_code |-> <<"c","a","t","e","g","o","r","y","_","c","o","d","e">>,
     components |-> <<"c","o","m","p","o","n","e","n","t","s">>,
     node |-> <<"n","o","d","e">>,
     total_elements |-> <<"t", "o", "t", "a", "l", "_", "e", "l", "e", "m", "e", "n", "t", "s">>,
     total_layers |-> <<"t", "o", "t", "a", "l", "_", "l", "a", "y", "e", "r", "s">>]

\* the string literals of the two source files; edited is a text a user may
\* type into a property, no snapshot of a list
Txt ==
    [Component |-> <<"C","o","m","p","o","n","e","n","t","_">>,
     Unknown |-> <<"U","n","k","n","o","w","n">>,
     uuid |-> <<"u","u","i","d">>,
     pset |-> <<"p","s","e","t","_","o","e","k","o","b","a","u","d","a","t">>,
     url |-> <<"h","t","t","p","s",":","/","/","o","e","k","o","b","a","u","d","a","t",".","d","e",
             "/","O","E","K","O","B","A","U",".","D","A","T","/", "d","a","t","a","s","e","t","d","e","t","a","i","l","/">>,
     library |-> <<"e","L","C","A","_","M","a","t","e","r","i","a","l","_", "L","i","b","r","a","r","y">>,
     version |-> <<"1", ".", "0">>,
     creator |-> <<"e","L","C","A"," ","M","a","t","e","r","i","a","l"," ","L","i","b","r","a","r","y"," ","C","r","e","a","t","o","r">>,
     walltype |-> <<"W","a","l","l"," ","t","y","p","e"," ","f","o","r"," ">>,
     association |-> <<"A","s","s","o","c","i","a","t","i","o","n"," ">>,
     true |-> <<"t", "r", "u", "e">>,
     false |-> <<"f", "a", "l", "s", "e">>,
     edited |-> <<"g", "A", "=", "=">>,
     mm |-> <<"m", "m">>,
     cm |-> <<"c", "m">>,
     m |-> <<"m">>,
     ifc |-> <<".", "i", "f", "c">>,
     html |-> <<".", "h", "t", "m", "l">>]

\* the order in which the keys of a dict or the attributes of an object were inserted
KeyOrder == <<K.category_code, K.name, K.components, K.quantity, K.layer_thickness,
              K.lifecycle_processes, K.uuid, K.process_name, K.node>>

---------------------------------------------------------------------------
(* pickle.dumps / pickle.loads: the opcode stream of the values above.     *)
(* Memoization and framing opcodes carry no data and are left out; lists   *)
(* and dicts are always written in the batched MARK ... APPENDS/SETITEMS   *)
(* form. The eight payload bytes of BINFLOAT are modelled by a sign byte   *)
(* and a 24-bit big-endian magnitude of the scaled integer.                *)

\* the opcodes of pickle protocol 4 that the stream uses
Op == [PROTO |-> 128, VERSION |-> 4, STOP |-> 46, NONE |-> 78, SHORT_BINUNICODE |-> 140,
       BINFLOAT |-> 71, EMPTY_LIST |-> 93, EMPTY_DICT |-> 125, EMPTY_TUPLE |-> 41,
       MARK |-> 40, APPENDS |-> 101, SETITEMS |-> 117, STACK_GLOBAL |-> 147,
       NEWOBJ |-> 129, BUILD |-> 98]

StrBytes(s) == [i \in DOMAIN s |-> Ord(s[i])]

FloatBytes(n) ==
    LET m == IF n < 0 THEN -n ELSE n
    IN <<IF n < 0 THEN 1 ELSE 0, (m \div 65536) % 256, (m \div 256) % 256, m % 256>>

KeysOf(f) == SelectSeq(KeyOrder, LAMBDA k : k \in DOMAIN f)

\* whether pickle can serialize the value at all
RECURSIVE Picklable(_)
Picklable(x) ==
    CASE x.t \in {"None", "str", "float"} -> TRUE
      [] x.t = "list" -> \A i \in DOMAIN x.v : Picklable(x.v[i])
      [] x.t \in {"dict", "obj"} -> \A k \in DOMAIN x.v : Picklable(x.v[k])
      [] OTHER -> FALSE

RECURSIVE Save(_), SaveItems(_, _), SavePairs(_, _)
Save(x) ==
    CASE x.t = "None" -> <<Op.NONE>>
      [] x.t = "str" -> <<Op.SHORT_BINUNICODE, Len(x.v)>> \o StrBytes(x.v)
      [] x.t = "float" -> <<Op.BINFLOAT>> \o FloatBytes(x.v)
      [] x.t = "list" ->
            IF x.v = <<>> THEN <<Op.EMPTY_LIST>>
            ELSE <<Op.EMPTY_LIST, Op.MARK>> \o SaveItems(x.v, 1) \o <<Op.APPENDS>>
      [] x.t = "dict" ->
            IF DOMAIN x.v = {} THEN <<Op.EMPTY_DICT>>
            ELSE <<Op.EMPTY_DICT, Op.MARK>> \o SavePairs(x.v, KeysOf(x.v)) \o <<Op.SETITEMS>>
      [] x.t = "obj" ->
            Save(PyStr(x.c.module)) \o Save(PyStr(x.c.name))
                \o <<Op.STACK_GLOBAL, Op.EMPTY_TUPLE, Op.NEWOBJ>>
                \o Save(PyDict(x.v)) \o <<Op.BUILD>>

SaveItems(s, i) ==
    IF i > Len(s) THEN <<>> ELSE Save(s[i]) \o SaveItems(s, i + 1)

SavePairs(f, keys) ==
    IF keys = <<>> THEN <<>>
    ELSE Save(PyStr(Head(keys))) \o Save(f[Head(keys)]) \o SavePairs(f, Tail(keys))

\* pickle.dumps(x): ok = FALSE stands for the exception pickle raises
PickleDumps(x) ==
    IF Picklable(x)
    THEN [ok |-> TRUE, v |-> <<Op.PROTO, Op.VERSION>> \o Save(x) \o <<Op.STOP>>]
    ELSE [ok |-> FALSE, v |-> <<>>]

Failed == [ok |-> FALSE, v |-> PyNone]

\* the index of the topmost MARK of the stack, 0 if there is none
TopMark(st) ==
    IF \E i \in DOMAIN st : st[i].t = "mark"
    THEN CHOOSE i \in DOMAIN st : st[i].t = "mark" /\ \A j \in DOMAIN st : st[j].t = "mark" => j <= i
    ELSE 0

Pop(st, n) == SubSeq(st, 1, Len(st) - n)

RECURSIVE SetItems(_, _, _)
SetItems(f, items, i) ==
    IF i > Len(items) THEN f
    ELSE LET k == items[i].v
             val == items[i + 1]
         IN SetItems([j \in DOMAIN f \cup {k} |-> IF j = k THEN val ELSE f[j]], items, i + 2)

\* d.update(e) on the underlying mappings
DictUpdate(f, g) ==
    [k \in DOMAIN f \cup DOMAIN g |-> IF k \in DOMAIN g THEN g[k] ELSE f[k]]

BytesAreChars(b, from, to) == \A j \in from..to : b[j] \in DOMAIN ChrTable

\* the states of the unpickling machine: at position i with stack st, stopped
\* with a result, or stopped by an exception
Goto(i, st) == [run |-> TRUE, ok |-> TRUE, i |-> i, st |-> st, v |-> PyNone]
Fault == [run |-> FALSE, ok |-> FALSE, i |-> 0, st |-> <<>>, v |-> PyNone]

\* one opcode of the unpickling machine over byte sequence b, at position i
\* with stack st
Load(b, i, st) ==
    IF i > Len(b) THEN Fault
    ELSE LET op == b[i]
             n == Len(st)
             m == TopMark(st)
         IN
         CASE op = Op.PROTO ->
                IF i + 1 <= Len(b) THEN Goto(i + 2, st) ELSE Fault
           [] op = Op.STOP ->
                IF n >= 1 /\ st[n].t # "mark" THEN [run |-> FALSE, ok |-> TRUE, i |-> 0, st |-> <<>>, v |-> st[n]]
                ELSE Fault
           [] op = Op.NONE -> Goto(i + 1, Append(st, PyNone))
           [] op = Op.SHORT_BINUNICODE ->
                IF i + 1 <= Len(b) /\ i + 1 + b[i + 1] <= Len(b)
                      /\ BytesAreChars(b, i + 2, i + 1 + b[i + 1])
                THEN Goto(i + 2 + b[i + 1],
                        Append(st, PyStr([j \in 1..b[i + 1] |-> Chr(b[i + 1 + j])])))
                ELSE Fault
           [] op = Op.BINFLOAT ->
                IF i + 4 <= Len(b)
                THEN LET mag == b[i + 2] * 65536 + b[i + 3] * 256 + b[i + 4]
                     IN Goto(i + 5,
                            Append(st, PyFloat(IF b[i + 1] = 1 THEN -mag ELSE mag)))
                ELSE Fault
           [] op = Op.EMPTY_LIST -> Goto(i + 1, Append(st, PyList(<<>>)))
           [] op = Op.EMPTY_DICT -> Goto(i + 1, Append(st, PyDict(<<>>)))
           [] op = Op.EMPTY_TUPLE -> Goto(i + 1, Append(st, [t |-> "tuple", v |-> <<>>]))
           [] op = Op.MARK -> Goto(i + 1, Append(st, [t |-> "mark"]))
           [] op = Op.APPENDS ->
                IF m >= 2 /\ st[m - 1].t = "list"
                THEN Goto(i + 1,
                        Append(SubSeq(st, 1, m - 2),
                               PyList(st[m - 1].v \o SubSeq(st, m + 1, n))))
                ELSE Fault
           [] op = Op.SETITEMS ->
                IF m >= 2 /\ st[m - 1].t = "dict" /\ (n - m) % 2 = 0
                      /\ \A j \in (m + 1)..n : (j - m) % 2 = 1 => st[j].t = "str"
                THEN Goto(i + 1,
                        Append(SubSeq(st, 1, m - 2),
                               PyDict(SetItems(st[m - 1].v, SubSeq(st, m + 1, n), 1))))
                ELSE Fault
           [] op = Op.STACK_GLOBAL ->
                IF n >= 2 /\ st[n].t = "str" /\ st[n - 1].t = "str"
                THEN Goto(i + 1,
                        Append(Pop(st, 2),
                               [t |-> "class", module |-> st[n - 1].v, name |-> st[n].v]))
                ELSE Fault
           [] op = Op.NEWOBJ ->
                IF n >= 2 /\ st[n].t = "tuple" /\ st[n - 1].t = "class"
                THEN Goto(i + 1,
                        Append(Pop(st, 2),
                               PyObj([module |-> st[n - 1].module, name |-> st[n - 1].name],
                                     <<>>)))
                ELSE Fault
           [] op = Op.BUILD ->
                IF n >= 2 /\ st[n].t = "dict" /\ st[n - 1].t = "obj"
                THEN Goto(i + 1,
                        Append(Pop(st, 2),
                               PyObj(st[n - 1].c, DictUpdate(st[n - 1].v, st[n].v))))
                ELSE Fault
           [] OTHER -> Fault

\* the machine after at most steps opcodes from state m
RECURSIVE Unpickle(_, _, _)
Unpickle(b, m, steps) ==
    IF ~m.run THEN m
    ELSE IF steps <= 1 THEN Load(b, m.i, m.st)
    ELSE Unpickle(b, Unpickle(b, m, steps \div 2), steps - (steps \div 2))

\* the result of a machine that has read all its input
Loaded(m) == IF m.run THEN Failed ELSE [ok |-> m.ok, v |-> m.v]

\* pickle.loads(b): ok = FALSE stands for the exception pickle raises; every
\* opcode reads at least one byte, so Len(b) + 1 steps end the run
PickleLoads(b) == Loaded(Unpickle(b, Goto(1, <<>>), Len(b) + 1))

---------------------------------------------------------------------------
(* base64.b64encode / b64decode and the utf-8 step between bytes and str   *)

B64Alphabet == Upper \o Lower \o Digits \o <<"+", "/">>

B64Code == [n \in 0..63 |-> Ord(B64Alphabet[n + 1])]

B64Char(n) == B64Code[n]

B64Pad == Ord("=")

\* the j-th character of the encoding of b
B64Quad(b, j) ==
    LET n == Len(b)
        byte(k) == IF k <= n THEN b[k] ELSE 0
        i == 3 * ((j - 1) \div 4) + 1
        pos == (j - 1) % 4
    IN IF pos = 0 THEN B64Char(byte(i) \div 4)
       ELSE IF pos = 1 THEN B64Char((byte(i) % 4) * 16 + byte(i + 1) \div 16)
       ELSE IF pos = 2
            THEN (IF i + 1 > n THEN B64Pad
                  ELSE B64Char((byte(i + 1) % 16) * 4 + byte(i + 2) \div 64))
       ELSE (IF i + 2 > n THEN B64Pad ELSE B64Char(byte(i + 2) % 64))

\* an encoder that leaves out the padding characters
B64Encode_Unpadded(b) == [j \in 1..((4 * Len(b) + 2) \div 3) |-> B64Quad(b, j)]

\* base64.b64encode(b): bytes to bytes, four characters for every three bytes
B64Encode(b) == [j \in 1..(4 * ((Len(b) + 2) \div 3)) |-> B64Quad(b, j)]

\* bytes.decode('utf-8') and str.encode('utf-8'), on ASCII
Utf8Decode(b) ==
    IF \A i \in DOMAIN b : b[i] < 128 /\ b[i] \in DOMAIN ChrTable
    THEN [ok |-> TRUE, v |-> [i \in DOMAIN b |-> Chr(b[i])]]
    ELSE [ok |-> FALSE, v |-> <<>>]

Utf8Encode(s) == StrBytes(s)

B64Inverse == [x \in {B64Code[n] : n \in 0..63} |-> CHOOSE n \in 0..63 : B64Code[n] = x]

IsB64Byte(x) == x \in DOMAIN B64Inverse

B64Value(x) == IF x = B64Pad THEN 0 ELSE B64Inverse[x]

\* base64.b64decode(b): characters outside the alphabet are discarded first;
\* a length that is no multiple of four or padding anywhere but in the last
\* one or two places raises (ok = FALSE)
B64Decode(b) ==
    LET f == SelectSeq(b, LAMBDA x : IsB64Byte(x) \/ x = B64Pad)
        n == Len(f)
        pads == Cardinality({i \in DOMAIN f : f[i] = B64Pad})
    IN IF n % 4 # 0 \/ pads > 2 \/ \E i \in 1..(n - pads) : f[i] = B64Pad
       THEN [ok |-> FALSE, v |-> <<>>]
       ELSE [ok |-> TRUE,
             v |-> [k \in 1..(3 * (n \div 4) - pads) |->
                      LET i == 4 * ((k - 1) \div 3) + 1
                          pos == (k - 1) % 3
                      IN IF pos = 0 THEN B64Value(f[i]) * 4 + B64Value(f[i + 1]) \div 16
                         ELSE IF pos = 1
                              THEN (B64Value(f[i + 1]) % 16) * 16 + B64Value(f[i + 2]) \div 4
                         ELSE (B64Value(f[i + 2]) % 4) * 64 + B64Value(f[i + 3])]]

\* base64.b64encode(pickle.dumps(x)).decode('utf-8')
PickleSnapshot(x) ==
    LET p == PickleDumps(x)
    IN IF p.ok THEN Utf8Decode(B64Encode(p.v)) ELSE [ok |-> FALSE, v |-> <<>>]

\* pickle.loads(base64.b64decode(s.encode('utf-8')))
UnpickleSnapshot(s) ==
    LET d == B64Decode(Utf8Encode(s))
    IN IF d.ok THEN PickleLoads(d.v) ELSE Failed

---------------------------------------------------------------------------
(* ifc_library_creator.create_ifc_library_from_bauteil_elements            *)
(* An IFC file is the sequence of its entities in creation order; an       *)
(* entity refers to another by its position. GlobalId and CreationDate     *)
(* (a random uuid, the clock) are not recorded.                            *)

RECURSIVE DigitsValue(_)
DigitsValue(d) ==
    IF d = <<>> THEN 0
    ELSE 10 * DigitsValue(SubSeq(d, 1, Len(d) - 1)) + (IndexOf(Digits, d[Len(d)]) - 1)

\* the place of the decimal point of an unsigned numeral, Len + 1 if it has none
DotIndex(body) ==
    IF \E i \in DOMAIN body : body[i] = "."
    THEN CHOOSE i \in DOMAIN body : body[i] = "." /\ \A j \in 1..(i - 1) : body[j] # "."
    ELSE Len(body) + 1

\* the value in hundredths of the digits before and after the decimal point
FloatMagnitude(whole, frac) ==
    100 * DigitsValue(whole) + DigitsValue(SubSeq(frac \o <<"0", "0">>, 1, 2))

\* float() of an unsigned numeral: digits with at most one decimal point and
\* at least one digit; ok = FALSE is ValueError
ParseUnsigned(body) ==
    IF /\ \A i \in DOMAIN body : body[i] \in Range(Digits) \cup {"."}
       /\ Cardinality({i \in DOMAIN body : body[i] = "."}) <= 1
       /\ \E i \in DOMAIN body : body[i] \in Range(Digits)
    THEN [ok |-> TRUE,
          v |-> FloatMagnitude(SubSeq(body, 1, DotIndex(body) - 1),
                               SubSeq(body, DotIndex(body) + 1, Len(body)))]
    ELSE [ok |-> FALSE, v |-> 0]

Negated(r) == [ok |-> r.ok, v |-> -r.v]

\* float(tok) for a token over digits, sign, point and letters other than a
\* numeral's (no exponent, inf or nan); the result is in hundredths
ParseFloat(tok) ==
    IF tok # <<>> /\ tok[1] = "-" THEN Negated(ParseUnsigned(Tail(tok)))
    ELSE IF tok # <<>> /\ tok[1] = "+" THEN ParseUnsigned(Tail(tok))
    ELSE ParseUnsigned(tok)

\* the thickness fallback of the except branch, 0.01 m
DefaultThickness == 1000

\* a conversion that compares the unit as it is written
ConvertThickness_CaseSensitive(value, unit) ==
    IF unit = Txt.mm THEN value
    ELSE IF unit = Txt.cm THEN value * 10
    ELSE IF unit = Txt.m THEN value * 1000
    ELSE value

\* thickness in 1e-5 m of a value in hundredths of the unit
ConvertThickness(value, unit) ==
    IF StrLower(unit) = Txt.mm THEN value
    ELSE IF StrLower(unit) = Txt.cm THEN value * 10
    ELSE IF StrLower(unit) = Txt.m THEN value * 1000
    ELSE value

\* a conversion that lets the ValueError of float() through
ResolveValue_Uncaught(thickness_value, unit_part) ==
    [ok |-> thickness_value.ok, v |-> ConvertThickness(thickness_value.v, unit_part)]

\* the conversion of the parsed number, or the fallback when float() raised
ResolveValue(thickness_value, unit_part) ==
    IF thickness_value.ok
    THEN [ok |-> TRUE, v |-> ConvertThickness(thickness_value.v, unit_part)]
    ELSE [ok |-> TRUE, v |-> DefaultThickness]

\* the try block on the tokens of the quantity text; no token is IndexError
ResolveParts(parts) ==
    IF parts = <<>> THEN [ok |-> TRUE, v |-> DefaultThickness]
    ELSE ResolveValue(ParseFloat(StrReplace(parts[1], ",", ".")),
                      IF Len(parts) > 1 THEN parts[2] ELSE Txt.mm)

ResolveQuantity(quantity_text) ==
    IF ~Truthy(quantity_text) THEN [ok |-> TRUE, v |-> 0]
    ELSE IF quantity_text.t # "str" THEN [ok |-> FALSE, v |-> 0]
    ELSE ResolveParts(StrSplit(quantity_text.v))

\* the thickness resolved for a component; ok = FALSE is an exception
\* that the try block does not catch
ResolveThickness(component) ==
    ResolveQuantity(DictGet(component, K.quantity, PyStr(<<>>)))

\* f"{x}"
Format(x) == IF x.t = "str" THEN x.v ELSE <<"N", "o", "n", "e">>

\* the property set entities of one lifecycle process with a uuid
EmitPropertySet(file, process, material, process_uuid) ==
    file \o
    <<[type |-> "IfcPropertySingleValue", Name |-> PyStr(Txt.uuid),
       NominalValue |-> Format(process_uuid)],
      [type |-> "IfcPropertySingleValue",
       Name |-> DictGet(process, K.process_name, PyStr(Txt.Unknown)),
       NominalValue |-> Txt.url \o Format(process_uuid)],
      [type |-> "IfcMaterialProperties", Name |-> PyStr(Txt.pset), Material |-> material,
       Properties |-> <<Len(file) + 1, Len(file) + 2>>]>>

\* a loop body that does not test the uuid
EmitProcess_NoTest(file, process, material) ==
    EmitPropertySet(file, process, material, DictGet(process, K.uuid, PyNone))

\* the body of the lifecycle process loop
EmitProcess(file, process, material) ==
    IF ~Truthy(DictGet(process, K.uuid, PyNone)) THEN file
    ELSE EmitPropertySet(file, process, material, DictGet(process, K.uuid, PyNone))

RECURSIVE EmitProcesses(_, _, _, _)
EmitProcesses(file, processes, i, material) ==
    IF i > Len(processes) THEN file
    ELSE EmitProcesses(EmitProcess(file, processes[i], material), processes, i + 1, material)

\* the material of a component and its property sets
EmitMaterial(file, component_name, lifecycle_processes) ==
    IF Truthy(lifecycle_processes)
    THEN EmitProcesses(Append(file, [type |-> "IfcMaterial", Name |-> component_name]),
                       lifecycle_processes.v, 1, Len(file) + 1)
    ELSE Append(file, [type |-> "IfcMaterial", Name |-> component_name])

\* the material layer of a component, created after its material
EmitLayer(file, material, component_name, thickness) ==
    [ok |-> TRUE,
     file |-> Append(file, [type |-> "IfcMaterialLayer", Material |-> material,
                            LayerThickness |-> thickness, Name |-> component_name]),
     layer |-> Len(file) + 1]

EmitNamed(file, component, component_name, thickness) ==
    IF ~thickness.ok THEN [ok |-> FALSE, file |-> file, layer |-> 0]
    ELSE EmitLayer(EmitMaterial(file, component_name,
                                DictGet(component, K.lifecycle_processes, PyList(<<>>))),
                   Len(file) + 1, component_name, thickness.v)

\* the body of the component loop: the material, its property sets and its layer
EmitComponent(file, component, idx) ==
    EmitNamed(file, component,
              DictGet(component, K.name, PyStr(Txt.Component \o IntToStr(idx))),
              ResolveThickness(component))

RECURSIVE EmitComponents(_, _, _, _)
EmitComponentsStep(r, file, components, idx, material_layers) ==
    IF r.ok THEN EmitComponents(r.file, components, idx + 1, Append(material_layers, r.layer))
    ELSE [ok |-> FALSE, file |-> file, layers |-> material_layers]

EmitComponents(file, components, idx, material_layers) ==
    IF idx >= Len(components) THEN [ok |-> TRUE, file |-> file, layers |-> material_layers]
    ELSE EmitComponentsStep(EmitComponent(file, components[idx + 1], idx),
                            file, components, idx, material_layers)

\* a name without the category code
LayerSetName_NameOnly(element) == Format(element.v[K.name])

\* f"{element.category_code} {element.name}"
LayerSetName(element) ==
    Format(element.v[K.category_code]) \o <<" ">> \o Format(element.v[K.name])

\* the wall type and its two relations, after the layers r of the layer set
\* created at position material_layer_set
EmitWallType(file, element, library, material_layer_set, r) ==
    IF ~r.ok THEN [ok |-> FALSE, file |-> file]
    ELSE IF r.layers = <<>> THEN [ok |-> TRUE, file |-> r.file]
    ELSE [ok |-> TRUE,
          file |-> [r.file EXCEPT ![material_layer_set].MaterialLayers = r.layers] \o
             <<[type |-> "IfcWallType", Name |-> LayerSetName(element),
                Description |-> Txt.walltype \o Format(element.v[K.name]),
                ElementType |-> LayerSetName(element)],
               [type |-> "IfcRelAssociatesMaterial",
                RelatedObjects |-> <<Len(r.file) + 1>>,
                RelatingMaterial |-> material_layer_set],
               [type |-> "IfcRelAssociatesLibrary",
                Name |-> Txt.association \o Format(element.v[K.name]),
                RelatedObjects |-> <<Len(r.file) + 1>>,
                RelatingLibrary |-> library]>>]

\* the body of the element loop without the test for an empty component list
EmitElement_NoSkip(file, element, library) ==
    EmitWallType(file, element, library, Len(file) + 1,
        EmitComponents(Append(file, [type |-> "IfcMaterialLayerSet",
                                     LayerSetName |-> LayerSetName(element),
                                     MaterialLayers |-> <<>>]),
                       element.v[K.components].v, 0, <<>>))

\* the body of the element loop
EmitElement(file, element, library) ==
    IF ~Truthy(element.v[K.components]) THEN [ok |-> TRUE, file |-> file]
    ELSE EmitWallType(file, element, library, Len(file) + 1,
            EmitComponents(Append(file, [type |-> "IfcMaterialLayerSet",
                                         LayerSetName |-> LayerSetName(element),
                                         MaterialLayers |-> <<>>]),
                           element.v[K.components].v, 0, <<>>))

RECURSIVE EmitElements(_, _, _, _)
EmitElementsStep(r, file, elements, i, library) ==
    IF r.ok THEN EmitElements(r.file, elements, i + 1, library)
    ELSE [ok |-> FALSE, file |-> file]

EmitElements(file, elements, i, library) ==
    IF i > Len(elements) THEN [ok |-> TRUE, file |-> file]
    ELSE EmitElementsStep(EmitElement(file, elements[i], library), file, elements, i, library)

\* the entities created before the element loop
IfcHeader ==
    <<[type |-> "IfcPerson"], [type |-> "IfcOrganization", Name |-> Txt.creator],
      [type |-> "IfcPersonAndOrganization"], [type |-> "IfcApplication"],
      [type |-> "IfcOwnerHistory"], [type |-> "IfcUnitAssignment"], [type |-> "IfcSIUnit"],
      [type |-> "IfcProject"],
      [type |-> "IfcLibraryInformation", Name |-> Txt.library, Version |-> Txt.version,
       Publisher |-> 2]>>

\* the entities create_ifc_library_from_bauteil_elements builds for a list
EmitLibrary(bauteil_elements) ==
    EmitElements(IfcHeader, bauteil_elements.v, 1, Len(IfcHeader))

---------------------------------------------------------------------------
(* The files on disk and elca_parser.ELCAComponentExtractor                *)

\* the files of the model: HTML reports a, b (another report), u (a report whose
\* elements cannot be serialized) and c (no report), XML exports p, q (no
\* layer), e (no layer, and a summary without total_layers) and r (no export),
\* the IFC project file j, an IFC file l that is no library and m (no file)
Path ==
    [a |-> <<"a", ".", "h", "t", "m", "l">>,
     b |-> <<"a", ".", "h", "t", "m">>,
     u |-> <<"u", ".", "h", "t", "m", "l">>,
     c |-> <<"c", ".", "h", "t", "m", "l">>,
     p |-> <<"p", ".", "x", "m", "l">>,
     q |-> <<"q", ".", "x", "m", "l">>,
     e |-> <<"e", ".", "x", "m", "l">>,
     r |-> <<"r", ".", "x", "m", "l">>,
     j |-> <<"j", ".", "i", "f", "c">>,
     l |-> <<"l", ".", "i", "f", "c">>,
     m |-> <<"m", ".", "i", "f", "c">>]

HtmlPaths == {Path.a, Path.b, Path.u, Path.c}
XmlPaths == {Path.p, Path.q, Path.e, Path.r}

\* the largest number of elements of a generated report
MaxElements == 2

\* a generated report is named after its content: "g", then for each element
\* the letters of its components followed by "-", then ".html"; these are the
\* component sequences its elements are drawn from
ComponentCodes ==
    {<<>>, <<"B">>, <<"B", "D">>, <<"D", "E">>, <<"E", "D">>,
     <<"X", "S", "Z", "N", "B">>, <<"B", "F">>}

RECURSIVE JoinCode(_)
JoinCode(code) ==
    IF code = <<>> THEN <<>> ELSE Head(code) \o <<"-">> \o JoinCode(Tail(code))

ReportPath(code) == <<"g">> \o JoinCode(code) \o Txt.html

GeneratedPaths ==
    {ReportPath(code) : code \in UNION {[1..n -> ComponentCodes] : n \in 0..MaxElements}}

RECURSIVE SplitCode(_, _, _)
SplitCode(stem, i, cur) ==
    IF i > Len(stem) THEN <<>>
    ELSE IF stem[i] = "-" THEN <<cur>> \o SplitCode(stem, i + 1, <<>>)
    ELSE SplitCode(stem, i + 1, Append(cur, stem[i]))

BauteilElementClass ==
    [module |-> <<"e","l","c","a","_","p","a","r","s","e","r">>,
     name |-> <<"B","a","u","t","e","i","l","E","l","e","m","e","n","t">>]

\* a dict from a sequence of <<key, value>> pairs
MakeDict(pairs) ==
    [k \in {pairs[i][1] : i \in DOMAIN pairs} |->
        pairs[CHOOSE i \in DOMAIN pairs : pairs[i][1] = k][2]]

BauteilElement(category_code, name, components) ==
    PyObj(BauteilElementClass,
          MakeDict(<<<<K.category_code, PyStr(category_code)>>, <<K.name, PyStr(name)>>,
                     <<K.components, PyList(components)>>>>))

\* the component of a generated report a letter names: B has lifecycle
\* processes with a uuid, without one and with an empty one, D has no list of
\* processes and E an empty one; the quantity of X does not start with a
\* number, S has a quantity of blanks, Z an empty one and N none, and the
\* quantity of F is a number, not a text
ReportComponent(letter) ==
    IF letter = "B" THEN
        PyDict(MakeDict(<<<<K.name, PyStr(<<"B">>)>>,
                          <<K.quantity, PyStr(<<"2","0","0",",","0","0"," ","m","m">>)>>,
                          <<K.lifecycle_processes,
                            PyList(<<PyDict(MakeDict(<<<<K.uuid, PyStr(<<"7","f">>)>>,
                                                       <<K.process_name, PyStr(<<"P">>)>>>>)),
                                     PyDict(MakeDict(<<<<K.process_name, PyStr(<<"Q">>)>>>>)),
                                     PyDict(MakeDict(<<<<K.uuid, PyStr(<<>>)>>,
                                                       <<K.process_name, PyStr(<<"R">>)>>>>)),
                                     PyDict(MakeDict(<<<<K.uuid, PyStr(<<"9">>)>>>>))>>)>>>>))
    ELSE IF letter = "D" THEN
        PyDict(MakeDict(<<<<K.name, PyStr(<<"D">>)>>,
                          <<K.quantity, PyStr(<<"5"," ","m","2">>)>>>>))
    ELSE IF letter = "E" THEN
        PyDict(MakeDict(<<<<K.name, PyStr(<<"E">>)>>,
                          <<K.quantity, PyStr(<<"0",",","2"," ","m">>)>>,
                          <<K.lifecycle_processes, PyList(<<>>)>>>>))
    ELSE IF letter = "X" THEN
        PyDict(MakeDict(<<<<K.name, PyStr(<<"X">>)>>,
                          <<K.quantity, PyStr(<<"c","a","."," ","2"," ","c","m">>)>>>>))
    ELSE IF letter = "S" THEN
        PyDict(MakeDict(<<<<K.name, PyStr(<<"S">>)>>, <<K.quantity, PyStr(<<" ", " ">>)>>>>))
    ELSE IF letter = "Z" THEN
        PyDict(MakeDict(<<<<K.name, PyStr(<<"Z">>)>>, <<K.quantity, PyStr(<<>>)>>>>))
    ELSE IF letter = "N" THEN
        PyDict(MakeDict(<<<<K.name, PyStr(<<"N">>)>>>>))
    ELSE
        PyDict(MakeDict(<<<<K.name, PyStr(<<"F">>)>>, <<K.quantity, PyFloat(500)>>>>))

\* the largest whole part of a generated quantity
MaxWhole == 2

\* the quantities of the generated reports of one component: sign, whole
\* part, decimals (their text and their value in hundredths) and unit
QuantityInputs ==
    [neg : BOOLEAN,
     whole : (0..MaxWhole) \cup {120},
     frac : {[text |-> <<>>, v |-> 0], [text |-> <<",", "5">>, v |-> 50],
             [text |-> <<".", "2", "5">>, v |-> 25], [text |-> <<",", "0", "5">>, v |-> 5]},
     unit : {<<>>, <<" ", "m", "m">>, <<" ", "M", "M">>, <<" ", "c", "m">>, <<" ", "C", "m">>,
             <<" ", "m">>, <<" ", "M">>, <<" ", "m", "2">>}]

\* the quantity as the report prints it
QuantityText(q) ==
    (IF q.neg THEN <<"-">> ELSE <<>>) \o IntToStr(q.whole) \o q.frac.text \o q.unit

\* such a report is named "q", its quantity, ".html"
QuantityPath(q) == <<"q">> \o QuantityText(q) \o Txt.html

QuantityPaths == {QuantityPath(q) : q \in QuantityInputs}

QuantityReport(path) ==
    <<BauteilElement(<<"3">>, <<"W">>,
        <<PyDict(MakeDict(<<<<K.name, PyStr(<<"Q">>)>>,
                            <<K.quantity,
                              PyStr(SubSeq(path, 2, Len(path) - Len(Txt.html)))>>>>))>>)>>

\* the element list of a generated report
GeneratedReport(code) ==
    [i \in DOMAIN code |->
        BauteilElement(<<"3">>, <<"W">>, [j \in DOMAIN code[i] |-> ReportComponent(code[i][j])])]

\* the element lists the HTML reports contain; a report that cannot be parsed has none
HtmlReport(path) ==
    IF path \in GeneratedPaths THEN GeneratedReport(SplitCode(SubSeq(path, 2, Len(path) - Len(Txt.html)), 1, <<>>))
    ELSE IF path \in QuantityPaths THEN QuantityReport(path)
    ELSE IF path = Path.a THEN
        <<BauteilElement(<<"3">>, <<"W">>,
            <<PyDict(MakeDict(<<<<K.name, PyStr(<<"B">>)>>,
                                <<K.quantity, PyStr(<<"2","0","0",",","0","0"," ","m","m">>)>>,
                                <<K.lifecycle_processes,
                                  PyList(<<PyDict(MakeDict(<<<<K.uuid, PyStr(<<"7","f">>)>>,
                                                             <<K.process_name, PyStr(<<"P">>)>>>>)),
                                           PyDict(MakeDict(<<<<K.process_name, PyStr(<<"Q">>)>>>>))>>)>>>>)),
              PyDict(MakeDict(<<<<K.name, PyStr(<<"D">>)>>,
                                <<K.quantity, PyStr(<<"5"," ","m","2">>)>>>>))>>),
          BauteilElement(<<"3">>, <<"R">>, <<>>)>>
    ELSE IF path = Path.b THEN
        <<BauteilElement(<<"4">>, <<"F">>,
            <<PyDict(MakeDict(<<<<K.name, PyStr(<<"K">>)>>,
                                <<K.layer_thickness, PyNone>>>>))>>)>>
    ELSE IF path = Path.u THEN
        <<BauteilElement(<<"5">>, <<"G">>,
            <<PyDict(MakeDict(<<<<K.name, PyStr(<<"H">>)>>, <<K.node, PyHandle>>>>))>>)>>
    ELSE <<>>

\* the layer records of the XML project exports: category, element, layer, thickness text
XmlProject(path) ==
    IF path = Path.p THEN
        <<[category |-> <<"3">>, element |-> <<"W">>, layer |-> <<"D">>,
           thickness |-> <<"1","2"," ","c","m">>],
          [category |-> <<"4">>, element |-> <<"F">>, layer |-> <<"K">>,
           thickness |-> <<"3","0",",","5"," ","M","M">>],
          [category |-> <<"9">>, element |-> <<"Z">>, layer |-> <<"Y">>,
           thickness |-> <<"0"," ","m","m">>],
          [category |-> <<"3">>, element |-> <<"W">>, layer |-> <<"E">>,
           thickness |-> <<"2","0"," ","c","m">>]>>
    ELSE <<>>

XmlThickness(rec) == ResolveThickness(PyDict(MakeDict(<<<<K.quantity, PyStr(rec.thickness)>>>>))).v

\* the XML matcher: a component takes the thickness of the first record of its
\* category, element and layer name
MatchComponent(element, component, records) ==
    LET hits == SelectSeq(records,
                    LAMBDA r : /\ PyStr(r.category) = element.v[K.category_code]
                               /\ PyStr(r.element) = element.v[K.name]
                               /\ PyStr(r.layer) = DictGet(component, K.name, PyNone))
    IN IF hits = <<>> THEN component
       ELSE PyDict(DictUpdate(component.v,
                MakeDict(<<<<K.layer_thickness, PyFloat(XmlThickness(hits[1]))>>>>)))

MatchElement(element, records) ==
    LET components == element.v[K.components].v
    IN PyObj(element.c,
             DictUpdate(element.v,
                MakeDict(<<<<K.components,
                             PyList([i \in DOMAIN components |->
                                        MatchComponent(element, components[i], records)])>>>>)))

\* extractor.get_layer_thickness_summary() of an export with the layer records
LayerSummary(records) ==
    MakeDict(<<<<K.total_elements,
                 Cardinality({<<records[i].category, records[i].element>> : i \in DOMAIN records})>>,
               <<K.total_layers,
                 Len(SelectSeq(records, LAMBDA r : XmlThickness(r) > 0))>>>>)

\* ELCAComponentExtractor(html_path, xml_path) on two files that exist, where
\* an empty xml_path is none:
\* extract_bauteil_elements() and get_layer_thickness_summary(); ok = FALSE is
\* an exception raised by either
ExtractFiles(html_path, xml_path) ==
    IF /\ html_path \notin {Path.a, Path.b, Path.u}
       /\ html_path \notin GeneratedPaths
       /\ html_path \notin QuantityPaths
    THEN [ok |-> FALSE, elements |-> PyList(<<>>), summary |-> <<>>]
    ELSE IF xml_path = <<>>
    THEN [ok |-> TRUE, elements |-> PyList(HtmlReport(html_path)), summary |-> <<>>]
    ELSE IF xml_path \notin {Path.p, Path.q, Path.e}
    THEN [ok |-> FALSE, elements |-> PyList(<<>>), summary |-> <<>>]
    ELSE [ok |-> TRUE,
          elements |-> PyList([i \in DOMAIN HtmlReport(html_path) |->
                                 MatchElement(HtmlReport(html_path)[i], XmlProject(xml_path))]),
          summary |-> IF xml_path = Path.e THEN MakeDict(<<<<K.total_elements, 0>>>>)
                      ELSE LayerSummary(XmlProject(xml_path))]

\* the XML export a generated report is matched with
MatchPaths == {Path.p}

\* the pairs of files LoadProject can hand to the extractor
FilePairs ==
    (HtmlPaths \X ({<<>>} \cup XmlPaths))
        \cup (GeneratedPaths \X MatchPaths) \cup (QuantityPaths \X {Path.q})

\* the extraction result of a pair of files, the snapshot stored for it, the
\* list decoded from that snapshot and the file emitted from that list, each
\* computed once by the operators above
MemoEmit(e, s, d) ==
    [extract |-> e, blob |-> s, loaded |-> d,
     emitted |-> IF d.ok THEN EmitLibrary(d.v) ELSE [ok |-> FALSE, file |-> <<>>]]

MemoLoad(e, s) == MemoEmit(e, s, UnpickleSnapshot(s.v))

MemoStore(e) == MemoLoad(e, PickleSnapshot(e.elements))

Memo == [pair \in FilePairs |-> MemoStore(ExtractFiles(pair[1], pair[2]))] @@ <<>>

\* the extractor: a file that is not on disk cannot be opened
ExtractIn(memo, html_path, xml_path, on_disk) ==
    IF html_path \notin on_disk
    THEN [ok |-> FALSE, elements |-> PyList(<<>>), summary |-> <<>>]
    ELSE IF <<html_path, xml_path>> \in DOMAIN memo THEN memo[<<html_path, xml_path>>].extract
    ELSE ExtractFiles(html_path, xml_path)

Extract(html_path, xml_path, on_disk) == ExtractIn(Memo, html_path, xml_path, on_disk)

\* the rows of Memo by the list extracted ("list"), by the snapshot stored
\* ("blob") and by the list decoded ("loaded")
MemoIndex ==
    LET Keys(row) ==
            {<<"list", row.extract.elements>>}
                \cup (IF row.blob.ok THEN {<<"blob", row.blob.v>>} ELSE {})
                \cup (IF row.loaded.ok THEN {<<"loaded", row.loaded.v>>} ELSE {})
    IN [key \in UNION {Keys(Memo[pair]) : pair \in FilePairs} |->
            Memo[CHOOSE pair \in FilePairs : key \in Keys(Memo[pair])]] @@ <<>>

\* base64.b64encode(pickle.dumps(x)).decode('utf-8')
SerializeIn(memo, x) ==
    IF <<"list", x>> \in DOMAIN memo THEN memo[<<"list", x>>].blob ELSE PickleSnapshot(x)

Serialize(x) == SerializeIn(MemoIndex, x)

\* pickle.loads(base64.b64decode(s.encode('utf-8')))
DeserializeIn(memo, s) ==
    IF <<"blob", s>> \in DOMAIN memo THEN memo[<<"blob", s>>].loaded ELSE UnpickleSnapshot(s)

Deserialize(s) == DeserializeIn(MemoIndex, s)

\* the file built by create_ifc_library_from_bauteil_elements, which it
\* writes to output_path when ok; ok = FALSE is an exception before the write
CreateIn(memo, bauteil_elements) ==
    IF <<"loaded", bauteil_elements>> \in DOMAIN memo
    THEN memo[<<"loaded", bauteil_elements>>].emitted
    ELSE EmitLibrary(bauteil_elements)

create_ifc_library_from_bauteil_elements(bauteil_elements) ==
    CreateIn(MemoIndex, bauteil_elements)

---------------------------------------------------------------------------
(* The scene and the operators of __init__.py                              *)

\* the property names ELCA_OT_ResetData clears
elca_properties ==
    <<"elca_html_path", "elca_xml_path", "elca_html_data", "elca_matched_data",
      "elca_layer_data", "elca_xml_layer_data", "elca_bauteil_elements">>

\* context.scene.get(k, None)
SceneGet(sc, k) == IF k \in DOMAIN sc THEN PyStr(sc[k]) ELSE PyNone

\* context.scene[k] = v
SceneSet(sc, k, v) == [j \in DOMAIN sc \cup {k} |-> IF j = k THEN v ELSE sc[j]]

\* del context.scene[k]
SceneDel(sc, k) == [j \in DOMAIN sc \ {k} |-> sc[j]]

OutputPath(html_path) == WithSuffix(html_path, Txt.ifc)

\* ifc_file.write(output_path)
WriteFile(files, output_path, ifc_file) ==
    [p \in DOMAIN files \cup {output_path} |-> IF p = output_path THEN ifc_file ELSE files[p]]

Report(level, msg, args) == [level |-> level, msg |-> msg, args |-> args]

\* the record of a call: operator, argument, return value, reports, the scene
\* and the IFC files it started with, whether it wrote the library file, and
\* the return value and reports of the call before it when that was the same
\* operator on the same argument
Call(op, arg, ret, rep, wrote) ==
    [op |-> op, arg |-> arg, ret |-> ret, rep |-> rep, pre |-> scene, files |-> disk,
     wrote |-> wrote,
     prior |-> IF last.op = op /\ last.arg = arg
               THEN [ret |-> last.ret, rep |-> last.rep]
               ELSE [ret |-> "NONE", rep |-> <<>>]]

\* what has happened since the last reset: a LoadResults that finished, a
\* LoadProject that finished after it, the HTML file and the element list of
\* the LoadProject that last wrote elca_bauteil_elements, and whether the
\* property was edited by hand since
NoHistory == [lr |-> FALSE, lp |-> FALSE, snap_src |-> <<>>, stored |-> PyNone, edited |-> FALSE]

NoCall == [op |-> "none", arg |-> <<>>, ret |-> "NONE", rep |-> <<>>, pre |-> <<>>,
           files |-> <<>>, wrote |-> FALSE, prior |-> [ret |-> "NONE", rep |-> <<>>]]

RECURSIVE SumSeq(_)
SumSeq(s) == IF s = <<>> THEN 0 ELSE Head(s) + SumSeq(Tail(s))

\* sum(len(element.components) for element in bauteil_elements)
NumComponents(bauteil_elements) ==
    SumSeq([i \in DOMAIN bauteil_elements.v |-> Len(bauteil_elements.v[i].v[K.components].v)])

\* the number of components with layer_thickness not None and > 0 (LoadProject)
NumLayersWithThickness(bauteil_elements) ==
    SumSeq([i \in DOMAIN bauteil_elements.v |->
        Len(SelectSeq(bauteil_elements.v[i].v[K.components].v,
                LAMBDA comp : LET thickness == DictGet(comp, K.layer_thickness, PyNone)
                              IN thickness.t # "None" /\ thickness.v > 0))])

RECURSIVE ReprItems(_, _)
ReprItems(d, keys) ==
    IF keys = <<>> THEN <<>>
    ELSE <<"'">> \o Head(keys) \o <<"'", ":", " ">> \o IntToStr(d[Head(keys)])
            \o (IF Len(keys) > 1 THEN <<",", " ">> ELSE <<>>) \o ReprItems(d, Tail(keys))

\* str(d) of a dict of int values
ReprDict(d) ==
    <<"{">> \o ReprItems(d, SelectSeq(<<K.total_elements, K.total_layers>>, LAMBDA k : k \in DOMAIN d)) \o <<"}">>

\* the handler that stores the path before it builds the extractor
LoadResultsFailed_PathStored(filepath) ==
    /\ scene' = SceneSet(scene, "elca_html_path", filepath)
    /\ last' = Call("LoadResults", filepath, "CANCELLED",
                    <<Report("ERROR", "Error loading eLCA HTML results", <<>>)>>, FALSE)
    /\ UNCHANGED hist

\* the except branch of ELCA_OT_LoadResults.execute
LoadResultsFailed(filepath) ==
    /\ last' = Call("LoadResults", filepath, "CANCELLED",
                    <<Report("ERROR", "Error loading eLCA HTML results", <<>>)>>, FALSE)
    /\ UNCHANGED <<scene, hist>>

\* ELCA_OT_LoadResults.execute, after the dependency check, with the
\* extractor's result r
LoadResultsWith(filepath, r) ==
    IF ~r.ok
    THEN LoadResultsFailed(filepath)
    ELSE /\ scene' = SceneSet(SceneSet(scene, "elca_html_path", filepath),
                              "elca_html_data", IntToStr(Len(r.elements.v)))
         /\ last' = Call("LoadResults", filepath, "FINISHED",
                         <<Report("INFO", "Loaded HTML",
                                  <<IntToStr(Len(r.elements.v)),
                                    IntToStr(NumComponents(r.elements))>>)>>, FALSE)
         /\ hist' = [hist EXCEPT !.lr = TRUE]

\* ELCA_OT_LoadResults.execute
LoadResults(filepath) ==
    /\ UNCHANGED <<exists, disk, dependencies_installed, patch>>
    /\ IF ~dependencies_installed
       THEN /\ last' = Call("LoadResults", filepath, "CANCELLED",
                            <<Report("ERROR", "dependencies", <<>>)>>, FALSE)
            /\ UNCHANGED <<scene, hist>>
       ELSE LoadResultsWith(filepath, Extract(filepath, <<>>, exists))

\* a comparison that takes a summary of no layers for a match
HasLayers_NotNegative(layer_summary) ==
    IF K.total_layers \in DOMAIN layer_summary
    THEN layer_summary[K.total_layers] >= 0 ELSE FALSE

\* whether the XML summary reports layers: layer_summary.get('total_layers', 0) > 0
HasLayers(layer_summary) ==
    IF K.total_layers \in DOMAIN layer_summary
    THEN layer_summary[K.total_layers] > 0 ELSE FALSE

\* the scene after elca_xml_path, elca_matched_data and elca_layer_data are stored
StoreMatch(sc, filepath, layer_summary) ==
    IF HasLayers(layer_summary)
    THEN SceneSet(SceneSet(SceneSet(sc, "elca_xml_path", filepath),
                           "elca_matched_data", Txt.true),
                  "elca_layer_data", ReprDict(layer_summary))
    ELSE SceneSet(SceneSet(sc, "elca_xml_path", filepath), "elca_matched_data", Txt.false)

\* a handler that leaves the property alone when serialization fails
StoreSnapshot_KeepOld(sc, serialized_data) ==
    IF serialized_data.ok THEN SceneSet(sc, "elca_bauteil_elements", serialized_data.v) ELSE sc

\* the inner try block of ELCA_OT_LoadProject.execute: the snapshot, or the
\* empty string when serialization raised
StoreSnapshot(sc, serialized_data) ==
    SceneSet(sc, "elca_bauteil_elements", IF serialized_data.ok THEN serialized_data.v ELSE <<>>)

\* ELCA_OT_LoadProject.execute from the extraction on, with the extractor's
\* result r and the serialized element list
LoadProjectWith(filepath, html_path, r, serialized_data) ==
    IF ~r.ok \/ (HasLayers(r.summary) /\ K.total_elements \notin DOMAIN r.summary)
    THEN /\ scene' = SceneSet(scene, "elca_xml_path", filepath)
         /\ last' = Call("LoadProject", filepath, "CANCELLED",
                         <<Report("ERROR", "Error processing eLCA project", <<>>)>>, FALSE)
         /\ UNCHANGED hist
    ELSE /\ scene' = StoreSnapshot(StoreMatch(scene, filepath, r.summary), serialized_data)
         /\ last' = Call("LoadProject", filepath, "FINISHED",
                         <<IF HasLayers(r.summary)
                           THEN Report("INFO", "Matched",
                                       <<IntToStr(NumLayersWithThickness(r.elements)),
                                         IntToStr(r.summary[K.total_elements])>>)
                           ELSE Report("WARNING", "No layer thickness data found in XML file",
                                       <<>>)>>, FALSE)
         /\ hist' = [lr |-> hist.lr, lp |-> hist.lp \/ hist.lr, snap_src |-> html_path,
                      stored |-> r.elements, edited |-> FALSE]

\* a handler that appends the extracted elements to the stored list
LoadProjectExtracted_Accumulate(filepath, html_path, r) ==
    LoadProjectWith(filepath, html_path, r,
        Serialize(IF /\ Truthy(SceneGet(scene, "elca_bauteil_elements"))
                     /\ Deserialize(scene["elca_bauteil_elements"]).ok
                  THEN PyList(Deserialize(scene["elca_bauteil_elements"]).v.v \o r.elements.v)
                  ELSE r.elements))

\* the inner try block with the serialized element list
LoadProjectExtracted(filepath, html_path, r) ==
    LoadProjectWith(filepath, html_path, r, Serialize(r.elements))

\* not html_path or not Path(html_path).exists()
HtmlMissing(sc, on_disk) ==
    \/ ~Truthy(SceneGet(sc, "elca_html_path"))
    \/ sc["elca_html_path"] \notin on_disk

\* the handler that stores the XML path before it looks for the HTML file
LoadProjectRejected_PathStored(filepath) ==
    /\ scene' = SceneSet(scene, "elca_xml_path", filepath)
    /\ last' = Call("LoadProject", filepath, "CANCELLED",
                    <<Report("ERROR", "Please load the HTML results file first!", <<>>)>>, FALSE)
    /\ UNCHANGED hist

\* the return of ELCA_OT_LoadProject.execute when the HTML file is missing
LoadProjectRejected(filepath) ==
    /\ last' = Call("LoadProject", filepath, "CANCELLED",
                    <<Report("ERROR", "Please load the HTML results file first!", <<>>)>>, FALSE)
    /\ UNCHANGED <<scene, hist>>

\* ELCA_OT_LoadProject.execute
LoadProject(filepath) ==
    /\ UNCHANGED <<exists, disk, dependencies_installed, patch>>
    /\ IF ~dependencies_installed
       THEN /\ last' = Call("LoadProject", filepath, "CANCELLED",
                            <<Report("ERROR", "dependencies", <<>>)>>, FALSE)
            /\ UNCHANGED <<scene, hist>>
       ELSE IF HtmlMissing(scene, exists)
       THEN LoadProjectRejected(filepath)
       ELSE LoadProjectExtracted(filepath, scene["elca_html_path"],
                                 Extract(scene["elca_html_path"], filepath, exists))

\* a loop that leaves elca_html_path in the scene
ClearProperties_KeepHtmlPath(sc, props) ==
    [k \in DOMAIN sc \ (Range(props) \ {"elca_html_path"}) |-> sc[k]]

\* a reset that clears nothing
ClearProperties_Nothing(sc, props) == sc

\* the loop of ELCA_OT_ResetData.execute over the property names
RECURSIVE ClearProperties(_, _)
ClearProperties(sc, props) ==
    IF props = <<>> THEN sc
    ELSE ClearProperties(IF Head(props) \in DOMAIN sc THEN SceneDel(sc, Head(props)) ELSE sc,
                         Tail(props))

\* ELCA_OT_ResetData.execute; bpy.context.screen is None when Blender has no
\* window, and the loop over its areas then raises, after the properties
\* were cleared and the count was reported
ResetData ==
    /\ scene' = ClearProperties(scene, elca_properties)
    /\ \E has_screen \in BOOLEAN :
          last' = Call("ResetData", <<>>, IF has_screen THEN "FINISHED" ELSE "CANCELLED",
                    <<Report("INFO", "Reset eLCA data",
                             <<IntToStr(Len(SelectSeq(elca_properties,
                                                      LAMBDA prop : prop \in DOMAIN scene)))>>)>>
                      \o (IF has_screen THEN <<>>
                          ELSE <<Report("ERROR", "Error resetting eLCA data", <<>>)>>),
                    FALSE)
    /\ hist' = NoHistory
    /\ UNCHANGED <<exists, disk, dependencies_installed, patch>>

---------------------------------------------------------------------------
(* ifc_library_creator.attach_library_to_project                           *)

\* file.by_type(type): the positions of the entities of a type, in creation order
Positions(file, type) == SelectSeq([i \in DOMAIN file |-> i], LAMBDA i : file[i].type = type)

\* the most libraries a project file is attached
MaxAttached == 2

\* the project files a session may have open: with and without an owner
\* history, and a file without IfcProject
ProjectFiles ==
    {<<[type |-> "IfcOwnerHistory"], [type |-> "IfcProject"]>>,
     <<[type |-> "IfcProject"]>>,
     <<[type |-> "IfcOwnerHistory"]>>}

\* the project file with an owner history, created when it has none
WithOwnerHistory(project_file) ==
    IF Positions(project_file, "IfcOwnerHistory") # <<>> THEN project_file
    ELSE project_file \o
         <<[type |-> "IfcPerson"], [type |-> "IfcOrganization", Name |-> Txt.creator],
           [type |-> "IfcPersonAndOrganization"], [type |-> "IfcApplication"],
           [type |-> "IfcOwnerHistory"]>>

\* new_library_info and its publisher
CopyLibraryInfo(project_file, library_file, library_info) ==
    project_file \o
    <<[type |-> "IfcOrganization",
       Name |-> library_file[library_file[library_info].Publisher].Name],
      [type |-> "IfcLibraryInformation", Name |-> library_file[library_info].Name,
       Version |-> library_file[library_info].Version, Publisher |-> Len(project_file) + 1]>>

\* the loop over the IfcRelAssociatesClassification relations rels of the
\* library: those of the material are copied with their reference
RECURSIVE CopyClassifications(_, _, _, _, _)
CopyClassifications(project_file, library_file, rels, material, new_material) ==
    IF rels = <<>> THEN project_file
    ELSE CopyClassifications(
            IF material \in Range(library_file[Head(rels)].RelatedObjects)
            THEN project_file \o
                 <<[type |-> "IfcClassificationReference",
                    Location |-> library_file[library_file[Head(rels)].RelatingClassification].Location,
                    Identification |->
                        library_file[library_file[Head(rels)].RelatingClassification].Identification,
                    Name |-> library_file[library_file[Head(rels)].RelatingClassification].Name],
                   [type |-> "IfcRelAssociatesClassification",
                    RelatedObjects |-> <<new_material>>,
                    RelatingClassification |-> Len(project_file) + 1]>>
            ELSE project_file,
            library_file, Tail(rels), material, new_material)

\* a copy of the layer that leaves its thickness out
CopyLayerEntity_NoThickness(project_file, library_file, layer, new_material, new_layers) ==
    [file |-> Append(project_file,
                     [type |-> "IfcMaterialLayer", Material |-> new_material,
                      LayerThickness |-> 0, Name |-> library_file[layer].Name]),
     layers |-> Append(new_layers, Len(project_file) + 1)]

\* new_layer, appended to new_layers
CopyLayerEntity(project_file, library_file, layer, new_material, new_layers) ==
    [file |-> Append(project_file,
                     [type |-> "IfcMaterialLayer", Material |-> new_material,
                      LayerThickness |-> library_file[layer].LayerThickness,
                      Name |-> library_file[layer].Name]),
     layers |-> Append(new_layers, Len(project_file) + 1)]

\* the body of the layer loop: new_material, its classifications, new_layer
CopyLayer(project_file, library_file, layer, new_layers) ==
    CopyLayerEntity(
        CopyClassifications(
            Append(project_file,
                   [type |-> "IfcMaterial",
                    Name |-> library_file[library_file[layer].Material].Name]),
            library_file, Positions(library_file, "IfcRelAssociatesClassification"),
            library_file[layer].Material, Len(project_file) + 1),
        library_file, layer, Len(project_file) + 1, new_layers)

RECURSIVE CopyLayers(_, _, _)
CopyLayers(r, library_file, layers) ==
    IF layers = <<>> THEN r
    ELSE CopyLayers(CopyLayer(r.file, library_file, Head(layers), r.layers),
                    library_file, Tail(layers))

\* the first IfcRelAssociatesMaterial that relates the wall type, 0 if none does
MaterialAssociation(library_file, wall_type) ==
    LET rels == SelectSeq(Positions(library_file, "IfcRelAssociatesMaterial"),
                          LAMBDA rel : wall_type \in Range(library_file[rel].RelatedObjects))
    IN IF rels = <<>> THEN 0 ELSE rels[1]

\* new_wall_type and its two relations, when a layer was copied
CopyWallTypeEntities(r, library_file, wall_type, new_mls, new_library_info) ==
    IF r.layers = <<>> THEN r.file
    ELSE [r.file EXCEPT ![new_mls].MaterialLayers = r.layers] \o
         <<[type |-> "IfcWallType", Name |-> library_file[wall_type].Name,
            Description |-> library_file[wall_type].Description,
            ElementType |-> library_file[wall_type].ElementType],
           [type |-> "IfcRelAssociatesMaterial", RelatedObjects |-> <<Len(r.file) + 1>>,
            RelatingMaterial |-> new_mls],
           [type |-> "IfcRelAssociatesLibrary",
            Name |-> Txt.association \o library_file[wall_type].Name,
            RelatedObjects |-> <<Len(r.file) + 1>>,
            RelatingLibrary |-> new_library_info]>>

\* the body of the wall type loop
CopyWallType(project_file, library_file, wall_type, material_association, new_library_info) ==
    IF material_association = 0 THEN project_file
    ELSE IF library_file[library_file[material_association].RelatingMaterial].type
                # "IfcMaterialLayerSet"
    THEN project_file
    ELSE CopyWallTypeEntities(
            CopyLayers([file |-> Append(project_file,
                            [type |-> "IfcMaterialLayerSet",
                             LayerSetName |->
                                library_file[library_file[material_association].RelatingMaterial]
                                    .LayerSetName,
                             MaterialLayers |-> <<>>]),
                        layers |-> <<>>],
                       library_file,
                       library_file[library_file[material_association].RelatingMaterial]
                            .MaterialLayers),
            library_file, wall_type, Len(project_file) + 1, new_library_info)

RECURSIVE CopyWallTypes(_, _, _, _)
CopyWallTypes(project_file, library_file, wall_types, new_library_info) ==
    IF wall_types = <<>> THEN project_file
    ELSE CopyWallTypes(CopyWallType(project_file, library_file, Head(wall_types),
                                    MaterialAssociation(library_file, Head(wall_types)),
                                    new_library_info),
                       library_file, Tail(wall_types), new_library_info)

\* the wall types copied into a project file that ends with new_library_info
CopyLibrary(project_file, library_file) ==
    CopyWallTypes(project_file, library_file, Positions(library_file, "IfcWallType"),
                  Len(project_file))

\* a function that writes the project file as soon as it has an owner history
AttachFiles_WriteEarly(project_file, library_file) ==
    [wrote |-> TRUE, file |-> WithOwnerHistory(project_file)]

\* attach_library_to_project on the two opened files: the project file it
\* returns and whether it wrote it
AttachFiles(project_file, library_file) ==
    IF \/ Positions(library_file, "IfcLibraryInformation") = <<>>
       \/ Positions(project_file, "IfcProject") = <<>>
    THEN [wrote |-> FALSE, file |-> project_file]
    ELSE [wrote |-> TRUE,
          file |-> CopyLibrary(
                      CopyLibraryInfo(WithOwnerHistory(project_file), library_file,
                                      Positions(library_file, "IfcLibraryInformation")[1]),
                      library_file)]

\* the files after project_file.write(ifc_project_path), if the call wrote
AttachWrite(files, ifc_project_path, r) ==
    [ret |-> "project_file", wrote |-> r.wrote,
     files |-> IF r.wrote THEN WriteFile(files, ifc_project_path, r.file) ELSE files]

\* attach_library_to_project: what it returns and the files it leaves; a file
\* that is not there cannot be opened, the exception is caught and None returned
attach_library_to_project(files, ifc_project_path, ifc_library_path) ==
    IF ifc_project_path \notin DOMAIN files \/ ifc_library_path \notin DOMAIN files
    THEN [ret |-> "None", wrote |-> FALSE, files |-> files]
    ELSE AttachWrite(files, ifc_project_path,
                     AttachFiles(files[ifc_project_path], files[ifc_library_path]))

\* a call of attach_library_to_project on the project file j.ifc, from a script
AttachLibrary(ifc_library_path) ==
    /\ disk' = attach_library_to_project(disk, Path.j, ifc_library_path).files
    /\ last' = Call("attach_library_to_project", ifc_library_path,
                    attach_library_to_project(disk, Path.j, ifc_library_path).ret, <<>>, FALSE)
    /\ UNCHANGED <<scene, exists, dependencies_installed, hist, patch>>

---------------------------------------------------------------------------
(* ELCA_OT_CreateIFCLibrary                                                *)

\* whether the count after the write compares None with 0 (a TypeError)
CountRaises(bauteil_elements) ==
    \E i \in DOMAIN bauteil_elements.v :
        \E j \in DOMAIN bauteil_elements.v[i].v[K.components].v :
            DictGet(bauteil_elements.v[i].v[K.components].v[j],
                    K.layer_thickness, PyFloat(0)).t = "None"

\* the number of components with layer_thickness > 0 (CreateIFCLibrary)
NumCreatedWithThickness(bauteil_elements) ==
    SumSeq([i \in DOMAIN bauteil_elements.v |->
        Len(SelectSeq(bauteil_elements.v[i].v[K.components].v,
                LAMBDA comp : DictGet(comp, K.layer_thickness, PyFloat(0)).v > 0))])

\* the warning CreateIFCLibrary reports when elca_matched_data is not "true"
MatchWarning(sc) ==
    IF "elca_matched_data" \in DOMAIN sc /\ sc["elca_matched_data"] = Txt.true
    THEN <<>>
    ELSE <<Report("WARNING", "Data matching may not be complete", <<>>)>>

\* context.scene.BIMProperties.ifc_file, empty when the scene has no project
ProjectPath(sc) ==
    IF "BIMProperties.ifc_file" \in DOMAIN sc THEN sc["BIMProperties.ifc_file"] ELSE <<>>

\* the record of a call of the operator with its attach_to_project option
CreateCall(attach_to_project, ret, rep, wrote) ==
    Call("CreateIFCLibrary",
         IF attach_to_project THEN <<"attach_to_project">> ELSE <<>>, ret, rep, wrote)

\* ELCA_OT_CreateIFCLibrary.execute from the library creation on, with the
\* decoded list and the file create_ifc_library_from_bauteil_elements built
CreateWith(output_path, bauteil_elements, ifc_file, attach_to_project) ==
    IF ~ifc_file.ok
    THEN /\ last' = CreateCall(attach_to_project, "CANCELLED",
                         MatchWarning(scene)
                            \o <<Report("ERROR", "Error creating IFC library", <<>>)>>, FALSE)
         /\ UNCHANGED disk
    ELSE IF CountRaises(bauteil_elements)
    THEN /\ disk' = WriteFile(disk, output_path, ifc_file.file)
         /\ last' = CreateCall(attach_to_project, "CANCELLED",
                         MatchWarning(scene)
                            \o <<Report("ERROR", "Error creating IFC library", <<>>)>>, TRUE)
    ELSE /\ disk' = IF attach_to_project /\ ProjectPath(scene) # <<>>
                     THEN attach_library_to_project(
                              WriteFile(disk, output_path, ifc_file.file),
                              ProjectPath(scene), output_path).files
                     ELSE WriteFile(disk, output_path, ifc_file.file)
         /\ last' = CreateCall(attach_to_project, "FINISHED",
                         MatchWarning(scene)
                            \o <<Report("INFO", "Created IFC library",
                                   <<IntToStr(Len(bauteil_elements.v)),
                                     IntToStr(NumCreatedWithThickness(bauteil_elements)),
                                     output_path>>)>>
                            \o (IF ~attach_to_project THEN <<>>
                                ELSE IF ProjectPath(scene) # <<>>
                                THEN <<Report("INFO", "Attached library to project",
                                              <<ProjectPath(scene)>>)>>
                                ELSE <<Report("WARNING",
                                              "No active IFC project found to attach library to",
                                              <<>>)>>), TRUE)

\* ELCA_OT_CreateIFCLibrary.execute from the decoding on
CreateLoaded(output_path, loaded, attach_to_project) ==
    IF ~loaded.ok
    THEN /\ last' = CreateCall(attach_to_project, "CANCELLED",
                         MatchWarning(scene)
                            \o <<Report("ERROR", "Could not retrieve bauteil elements", <<>>)>>,
                         FALSE)
         /\ UNCHANGED disk
    ELSE CreateWith(output_path, loaded.v, create_ifc_library_from_bauteil_elements(loaded.v),
                    attach_to_project)

\* ELCA_OT_CreateIFCLibrary.execute
CreateIFCLibrary(attach_to_project) ==
    /\ UNCHANGED <<scene, exists, dependencies_installed, hist, patch>>
    /\ IF ~dependencies_installed
       THEN /\ last' = CreateCall(attach_to_project, "CANCELLED",
                            <<Report("ERROR", "dependencies", <<>>)>>, FALSE)
            /\ UNCHANGED disk
       ELSE IF ~Truthy(SceneGet(scene, "elca_html_path"))
       THEN /\ last' = CreateCall(attach_to_project, "CANCELLED",
                            <<Report("ERROR", "No HTML file loaded", <<>>)>>, FALSE)
            /\ UNCHANGED disk
       ELSE IF ~Truthy(SceneGet(scene, "elca_xml_path"))
       THEN /\ last' = CreateCall(attach_to_project, "CANCELLED",
                            <<Report("ERROR", "No XML file loaded", <<>>)>>, FALSE)
            /\ UNCHANGED disk
       ELSE IF ~Truthy(SceneGet(scene, "elca_bauteil_elements"))
       THEN /\ last' = CreateCall(attach_to_project, "CANCELLED",
                            MatchWarning(scene)
                                \o <<Report("ERROR", "No processed bauteil elements found",
                                            <<>>)>>, FALSE)
            /\ UNCHANGED disk
       ELSE CreateLoaded(OutputPath(scene["elca_html_path"]),
                         Deserialize(scene["elca_bauteil_elements"]), attach_to_project)

\* the user deletes or moves an HTML report (a.html, in the behaviours checked)
DeleteHtml(p) ==
    /\ p \in exists
    /\ exists' = exists \ {p}
    /\ last' = NoCall
    /\ UNCHANGED <<scene, disk, dependencies_installed, hist, patch>>

\* the user puts the HTML report back
RestoreHtml(p) ==
    /\ p \notin exists
    /\ exists' = exists \cup {p}
    /\ last' = NoCall
    /\ UNCHANGED <<scene, disk, dependencies_installed, hist, patch>>

\* the user edits the custom property elca_bauteil_elements in the scene
EditSnapshot ==
    /\ Truthy(SceneGet(scene, "elca_bauteil_elements"))
    /\ scene["elca_bauteil_elements"] # Txt.edited
    /\ scene' = SceneSet(scene, "elca_bauteil_elements", Txt.edited)
    /\ hist' = [hist EXCEPT !.edited = TRUE]
    /\ last' = NoCall
    /\ UNCHANGED <<exists, disk, dependencies_installed, patch>>

---------------------------------------------------------------------------
\* The panel patch: monkey_patch_panel, load_handler, register, unregister.

\* load_handler's list of the panel classes to try, in order
target_panel_classes ==
    <<"bonsai.bim.module.material.ui.BIM_PT_materials",
      "bonsai.bim.module.material.ui.BIM_PT_object_material">>

\* the draw function the host defines the panel class panel_name with
HostDraw(panel_name) == [fn |-> "draw", panel_name |-> panel_name]

\* the patches of one panel class in a row that are told apart
MaxPatches == 2

\* the closure monkey_patch_panel builds for panel_name, a new function at
\* every call: nth counts the patches of the class since its draw attribute
\* was a host function, up to MaxPatches
new_draw(panel_name, nth) == [fn |-> "new_draw", panel_name |-> panel_name, nth |-> nth]

\* draw_elca_ui called for a panel of the class panel_name
ElcaDraw(panel_name) == [fn |-> "draw_elca_ui", panel_name |-> panel_name]

\* draw_elca_ui: the operator controls it lays out for a scene, each
\* "enabled", "disabled" or "absent"
draw_elca_ui(sc, installed) ==
    IF ~installed
    THEN [load_results |-> "absent", load_project |-> "absent",
          create_ifc_library |-> "absent", reset_data |-> "absent"]
    ELSE [load_results |->
            IF Truthy(SceneGet(sc, "elca_html_path")) THEN "disabled" ELSE "enabled",
          load_project |->
            IF ~Truthy(SceneGet(sc, "elca_html_path")) THEN "disabled"
            ELSE IF /\ Truthy(SceneGet(sc, "elca_xml_path"))
                    /\ SceneGet(sc, "elca_matched_data") = PyStr(Txt.true)
            THEN "disabled"
            ELSE "enabled",
          create_ifc_library |->
            IF /\ Truthy(SceneGet(sc, "elca_html_path"))
               /\ Truthy(SceneGet(sc, "elca_xml_path"))
               /\ SceneGet(sc, "elca_matched_data") = PyStr(Txt.true)
            THEN "enabled" ELSE "absent",
          reset_data |->
            IF \/ Truthy(SceneGet(sc, "elca_html_path"))
               \/ Truthy(SceneGet(sc, "elca_xml_path"))
            THEN "enabled" ELSE "absent"]

\* no panel has been drawn
NoDraw == [panel_name |-> "", calls |-> <<>>, raised |-> FALSE]

\* the calls new_draw makes of the function stored for its panel: a host
\* function is called once, and once more by the except branch when the first
\* call raised; a stored new_draw calls itself without end and both calls end
\* in a RecursionError. raises[i] says whether the i-th call of the host
\* function raises.
CallOriginal(original, raises) ==
    IF original.fn = "new_draw"
    THEN [calls |-> <<original, original>>, raised |-> TRUE]
    ELSE IF raises[1]
    THEN [calls |-> <<original, original>>, raised |-> raises[2]]
    ELSE [calls |-> <<original>>, raised |-> FALSE]

\* panel.draw(context) of a panel whose class has the draw attribute draw:
\* the functions called, in order, and whether the call raised. draw_elca_ui
\* catches every exception of its own body and returns.
CallDraw(draw, originals, raises) ==
    IF draw.fn = "draw"
    THEN [panel_name |-> draw.panel_name, calls |-> <<draw>>, raised |-> raises[1]]
    ELSE IF draw.panel_name \in DOMAIN originals
    THEN [panel_name |-> draw.panel_name,
          calls |-> <<ElcaDraw(draw.panel_name)>>
                        \o CallOriginal(originals[draw.panel_name], raises).calls,
          raised |-> CallOriginal(originals[draw.panel_name], raises).raised]
    ELSE [panel_name |-> draw.panel_name, calls |-> <<ElcaDraw(draw.panel_name)>>,
          raised |-> FALSE]

\* a patch that stores the draw attribute it finds at every call
monkey_patch_panel_StoreAlways(draws, originals, panel_name) ==
    [panel_draw |-> [draws EXCEPT ![panel_name] = new_draw(panel_name, 1)],
     original_draw_functions |-> SceneSet(originals, panel_name, draws[panel_name])]

\* the original draw function is stored at the first patch only
monkey_patch_panel(draws, originals, panel_name) ==
    [panel_draw |->
        [draws EXCEPT ![panel_name] =
            new_draw(panel_name,
                     IF draws[panel_name].fn # "new_draw" THEN 1
                     ELSE IF draws[panel_name].nth < MaxPatches THEN draws[panel_name].nth + 1
                     ELSE MaxPatches)],
     original_draw_functions |->
        IF panel_name \notin DOMAIN originals
        THEN SceneSet(originals, panel_name, draws[panel_name])
        ELSE originals]

\* load_handler(dummy): the first target panel class that exists is patched
load_handler(draws, originals) ==
    IF \A i \in DOMAIN target_panel_classes : target_panel_classes[i] \notin DOMAIN draws
    THEN [panel_draw |-> draws, original_draw_functions |-> originals]
    ELSE monkey_patch_panel(draws, originals,
            target_panel_classes[CHOOSE i \in DOMAIN target_panel_classes :
                /\ target_panel_classes[i] \in DOMAIN draws
                /\ \A j \in 1..(i - 1) : target_panel_classes[j] \notin DOMAIN draws])

\* the handlers of a list are called in order
RECURSIVE RunHandlers(_, _, _)
RunHandlers(handlers, draws, originals) ==
    IF handlers = <<>> THEN [panel_draw |-> draws, original_draw_functions |-> originals]
    ELSE IF Head(handlers) = "load_handler"
    THEN RunHandlers(Tail(handlers), load_handler(draws, originals).panel_draw,
                     load_handler(draws, originals).original_draw_functions)
    ELSE RunHandlers(Tail(handlers), draws, originals)

\* the handler is appended unless it is in the list
AddHandler(handlers) ==
    IF "load_handler" \in Range(handlers) THEN handlers ELSE Append(handlers, "load_handler")

\* list.remove: the first occurrence goes
RemoveHandler(handlers) ==
    IF "load_handler" \notin Range(handlers) THEN handlers
    ELSE [i \in 1..(Len(handlers) - 1) |->
            IF i < IndexOf(handlers, "load_handler") THEN handlers[i] ELSE handlers[i + 1]]

\* an unregister that leaves the draw attributes as they are
RestoreDraw_Keep(draws, originals) == draws

\* unregister's loop over _original_draw_functions: a panel class that exists
\* gets the stored function back
RestoreDraw(draws, originals) ==
    [name \in DOMAIN draws |-> IF name \in DOMAIN originals THEN originals[name] ELSE draws[name]]

\* what every operator on the scene leaves as it is
PatchCall(op, arg) ==
    /\ last' = Call(op, arg, "None", <<>>, FALSE)
    /\ UNCHANGED <<scene, exists, disk, dependencies_installed, hist>>

\* register(): the handler is added and run at once
Register ==
    /\ load_post' = AddHandler(load_post)
    /\ panel_draw' = load_handler(panel_draw, original_draw_functions).panel_draw
    /\ original_draw_functions' =
            load_handler(panel_draw, original_draw_functions).original_draw_functions
    /\ PatchCall("register", <<>>)
    /\ UNCHANGED drawn

\* unregister()
Unregister ==
    /\ panel_draw' = RestoreDraw(panel_draw, original_draw_functions)
    /\ load_post' = RemoveHandler(load_post)
    /\ PatchCall("unregister", <<>>)
    /\ UNCHANGED <<original_draw_functions, drawn>>

\* a file is loaded: the host calls the handlers of load_post
LoadPost ==
    /\ load_post # <<>>
    /\ panel_draw' = RunHandlers(load_post, panel_draw, original_draw_functions).panel_draw
    /\ original_draw_functions' =
            RunHandlers(load_post, panel_draw, original_draw_functions).original_draw_functions
    /\ PatchCall("load_post", <<>>)
    /\ UNCHANGED <<load_post, drawn>>

\* the host registers a panel class of the target list
HostRegisters(panel_name) ==
    /\ panel_name \notin DOMAIN panel_draw
    /\ panel_draw' = SceneSet(panel_draw, panel_name, HostDraw(panel_name))
    /\ last' = NoCall
    /\ UNCHANGED <<scene, exists, disk, dependencies_installed, hist>>
    /\ UNCHANGED <<original_draw_functions, load_post, drawn>>

\* the host draws a panel
Draw(panel_name, raises) ==
    /\ panel_name \in DOMAIN panel_draw
    /\ drawn' = CallDraw(panel_draw[panel_name], original_draw_functions, raises)
    /\ PatchCall("draw", <<>>)
    /\ UNCHANGED <<panel_draw, original_draw_functions, load_post>>

\* the host before the add-on is registered, with the panel classes of names
Unpatched(names) ==
    /\ panel_draw = [name \in names |-> HostDraw(name)]
    /\ original_draw_functions = <<>>
    /\ load_post = <<>>
    /\ drawn = NoDraw

Init ==
    /\ scene = <<>>
    /\ exists = HtmlPaths
    /\ disk = <<>>
    /\ dependencies_installed \in BOOLEAN
    /\ last = NoCall
    /\ hist = NoHistory
    /\ Unpatched(Range(target_panel_classes))

Next ==
    \/ \E filepath \in HtmlPaths : LoadResults(filepath)
    \/ \E filepath \in XmlPaths : LoadProject(filepath)
    \/ ResetData
    \/ CreateIFCLibrary(FALSE)
    \/ \E p \in {Path.a} : DeleteHtml(p)
    \/ \E p \in {Path.a} : RestoreHtml(p)
    \/ EditSnapshot

Spec == Init /\ [][Next]_vars

\* The operators on generated reports: one report is loaded in a new session,
\* matched with an XML export and emitted.
InitEmit ==
    /\ scene = <<>>
    /\ exists = HtmlPaths \cup GeneratedPaths
    /\ disk = <<>>
    /\ dependencies_installed = TRUE
    /\ last = NoCall
    /\ hist = NoHistory
    /\ Unpatched(Range(target_panel_classes))

\* the first load of a session
FirstLoad(filepath) ==
    /\ \A prop \in Range(elca_properties) : prop \notin DOMAIN scene
    /\ LoadResults(filepath)

NextEmit ==
    \/ \E filepath \in GeneratedPaths : FirstLoad(filepath)
    \/ \E filepath \in MatchPaths : LoadProject(filepath)
    \/ CreateIFCLibrary(FALSE)

SpecEmit == InitEmit /\ [][NextEmit]_vars

\* The reports a library is attached from: elements without components, with
\* lifecycle processes and with a quantity that makes the emission raise
AttachPaths ==
    {ReportPath(code) :
        code \in UNION {[1..n -> {<<>>, <<"B", "D">>, <<"B", "F">>}] : n \in 0..MaxElements}}

\* The operators on a session with or without a project file (j.ifc, which
\* may be missing on disk): a report is loaded, matched, emitted and attached;
\* l.ifc is a file on disk without IfcLibraryInformation.
InitAttach ==
    /\ \/ /\ scene = <<>>
          /\ disk = WriteFile(<<>>, Path.l, <<[type |-> "IfcProject"]>>)
       \/ /\ scene = SceneSet(<<>>, "BIMProperties.ifc_file", Path.j)
          /\ \/ disk = WriteFile(<<>>, Path.l, <<[type |-> "IfcProject"]>>)
             \/ \E project_file \in ProjectFiles :
                    disk = WriteFile(WriteFile(<<>>, Path.l, <<[type |-> "IfcProject"]>>),
                                     Path.j, project_file)
    /\ exists = AttachPaths
    /\ dependencies_installed = TRUE
    /\ last = NoCall
    /\ hist = NoHistory
    /\ Unpatched(Range(target_panel_classes))

NextAttach ==
    \/ \E filepath \in AttachPaths : FirstLoad(filepath)
    \/ \E filepath \in MatchPaths : LoadProject(filepath)
    \/ \E attach_to_project \in BOOLEAN :
          /\ attach_to_project /\ Path.j \in DOMAIN disk =>
                Len(Positions(disk[Path.j], "IfcLibraryInformation")) < MaxAttached
          /\ CreateIFCLibrary(attach_to_project)
    \/ \E ifc_library_path \in {Path.l, Path.m} : AttachLibrary(ifc_library_path)

SpecAttach == InitAttach /\ [][NextAttach]_vars

\* The operators on the reports of one component with a generated quantity.
InitQuantity ==
    /\ scene = <<>>
    /\ exists = QuantityPaths
    /\ disk = <<>>
    /\ dependencies_installed = TRUE
    /\ last = NoCall
    /\ hist = NoHistory
    /\ Unpatched(Range(target_panel_classes))

NextQuantity ==
    \/ \E filepath \in QuantityPaths : FirstLoad(filepath)
    \/ LoadProject(Path.q)
    \/ CreateIFCLibrary(FALSE)

SpecQuantity == InitQuantity /\ [][NextQuantity]_vars

\* The panel patch in a host that has some of the target panel classes: the
\* add-on is registered and unregistered in any order, files are loaded, the
\* host registers further panel classes and draws panels whose own draw
\* function may raise.
InitPanel ==
    /\ scene = <<>>
    /\ exists = {}
    /\ disk = <<>>
    /\ dependencies_installed = TRUE
    /\ last = NoCall
    /\ hist = NoHistory
    /\ \E names \in SUBSET Range(target_panel_classes) : Unpatched(names)

NextPanel ==
    \/ Register
    \/ Unregister
    \/ LoadPost
    \/ \E panel_name \in Range(target_panel_classes) : HostRegisters(panel_name)
    \/ \E panel_name \in Range(target_panel_classes), raises \in BOOLEAN \X BOOLEAN :
          Draw(panel_name, raises)

SpecPanel == InitPanel /\ [][NextPanel]_vars

---------------------------------------------------------------------------
(* Properties                                                              *)

\* whether a call reported a message at the given level
Reported(call, level) == \E i \in DOMAIN call.rep : call.rep[i].level = level

\* whether the last call was a CreateIFCLibrary that wrote its file
Created == last.op = "CreateIFCLibrary" /\ last.wrote

\* the elements of the list the last CreateIFCLibrary decoded, and the file it wrote
CreatedFrom == Deserialize(scene["elca_bauteil_elements"]).v.v
CreatedFile == disk[OutputPath(scene["elca_html_path"])]

\* the elements of a list that have a component
WithComponents(elements) == SelectSeq(elements, LAMBDA e : Len(e.v[K.components].v) > 0)

RECURSIVE Flatten(_)
Flatten(seqs) == IF seqs = <<>> THEN <<>> ELSE Head(seqs) \o Flatten(Tail(seqs))

\* the components of a list of elements, in order
AllComponents(elements) == Flatten([i \in DOMAIN elements |-> elements[i].v[K.components].v])

\* C1: a LoadProject invoked while elca_html_path is unset, empty or names a
\* file that does not exist reports an ERROR, returns CANCELLED and leaves
\* every elca_* property of the scene as it was.
C1_LoadProjectWithoutHtml ==
    (last.op = "LoadProject" /\ HtmlMissing(last.pre, exists)) =>
        /\ last.ret = "CANCELLED"
        /\ Reported(last, "ERROR")
        /\ scene = last.pre

\* C1 happens: with the dependencies installed, a LoadProject is invoked after
\* the loaded report was deleted, in a scene that holds earlier results.
C1_Witness ==
    /\ last.op = "LoadProject"
    /\ dependencies_installed
    /\ "elca_html_path" \in DOMAIN last.pre
    /\ last.pre["elca_html_path"] \notin exists
    /\ "elca_bauteil_elements" \in DOMAIN last.pre
    /\ last.ret = "CANCELLED"

\* C2: a CreateIFCLibrary that writes the IFC file is preceded, since the last
\* ResetData, by a LoadResults that finished and after it a LoadProject that
\* finished; CreateIFCLibrary changes no property of the scene.
C2_EmissionAfterExtraction ==
    /\ Created => hist.lr /\ hist.lp
    /\ last.op = "CreateIFCLibrary" => scene = last.pre

\* C2 happens: a CreateIFCLibrary wrote its file after a reset and new loads.
C2_Witness ==
    /\ Created
    /\ last.ret = "FINISHED"
    /\ hist.lr /\ hist.lp
    /\ Len(CreatedFile) > Len(IfcHeader)

\* C3: a non-empty elca_bauteil_elements was extracted from the HTML file that
\* elca_html_path names.
C3_SnapshotOfCurrentHtml ==
    (Truthy(SceneGet(scene, "elca_bauteil_elements")) /\ ~hist.edited) =>
        SceneGet(scene, "elca_html_path") = PyStr(hist.snap_src)

\* C4: the LayerThickness of the layer emitted for a component whose
\* layer_thickness is greater than 0 equals that layer_thickness.
C4_LayerThicknessOfMatch ==
    Created =>
        \A k \in DOMAIN WithComponents(CreatedFrom) :
            \A j \in DOMAIN WithComponents(CreatedFrom)[k].v[K.components].v :
                LET component == WithComponents(CreatedFrom)[k].v[K.components].v[j]
                    layer_set == CreatedFile[Positions(CreatedFile, "IfcMaterialLayerSet")[k]]
                    layer_thickness == DictGet(component, K.layer_thickness, PyNone)
                IN (layer_thickness.t = "float" /\ layer_thickness.v > 0) =>
                      CreatedFile[layer_set.MaterialLayers[j]].LayerThickness = layer_thickness.v

\* C5: when the extractor raises in LoadResults, the operator reports an
\* ERROR and no count, returns CANCELLED, and elca_html_path and
\* elca_html_data are as they were.
C5_LoadResultsFailure ==
    (last.op = "LoadResults" /\ dependencies_installed
        /\ ~Extract(last.arg, <<>>, exists).ok) =>
        /\ last.ret = "CANCELLED"
        /\ Reported(last, "ERROR")
        /\ ~Reported(last, "INFO")
        /\ SceneGet(scene, "elca_html_path") = SceneGet(last.pre, "elca_html_path")
        /\ SceneGet(scene, "elca_html_data") = SceneGet(last.pre, "elca_html_data")

\* C5 happens: the extractor raised on a report while another one was loaded.
C5_Witness ==
    /\ last.op = "LoadResults"
    /\ dependencies_installed
    /\ ~Extract(last.arg, <<>>, exists).ok
    /\ "elca_html_path" \in DOMAIN scene
    /\ scene["elca_html_path"] # last.arg

\* C6: when the HTML file is there and the extraction raises in LoadProject,
\* the operator reports an ERROR, returns CANCELLED, and every elca_*
\* property of the scene has the value it had before.
C6_LoadProjectFailure ==
    (last.op = "LoadProject" /\ dependencies_installed /\ ~HtmlMissing(last.pre, exists)
        /\ ~Extract(last.pre["elca_html_path"], last.arg, exists).ok) =>
        /\ last.ret = "CANCELLED"
        /\ Reported(last, "ERROR")
        /\ scene = last.pre

\* C7: when the element list cannot be serialized, LoadProject stores the
\* empty string and returns FINISHED; a CreateIFCLibrary that finds the empty
\* string, or a text it cannot decode, reports an ERROR, returns CANCELLED and
\* writes no file.
C7_SnapshotFailure ==
    /\ (last.op = "LoadProject" /\ dependencies_installed /\ ~HtmlMissing(last.pre, exists)
          /\ Extract(last.pre["elca_html_path"], last.arg, exists).ok
          /\ ~Serialize(Extract(last.pre["elca_html_path"], last.arg, exists).elements).ok) =>
            /\ last.ret = "FINISHED"
            /\ SceneGet(scene, "elca_bauteil_elements") = PyStr(<<>>)
    /\ (last.op = "CreateIFCLibrary" /\ dependencies_installed
          /\ Truthy(SceneGet(last.pre, "elca_html_path"))
          /\ Truthy(SceneGet(last.pre, "elca_xml_path"))
          /\ "elca_bauteil_elements" \in DOMAIN last.pre
          /\ ~Deserialize(last.pre["elca_bauteil_elements"]).ok) =>
            /\ last.ret = "CANCELLED"
            /\ Reported(last, "ERROR")
            /\ ~last.wrote

\* C7 happens: CreateIFCLibrary is invoked on the empty string that a
\* LoadProject stored for a list it could not serialize.
C7_Witness ==
    /\ last.op = "CreateIFCLibrary"
    /\ dependencies_installed
    /\ hist.stored.t = "list"
    /\ ~Serialize(hist.stored).ok
    /\ SceneGet(scene, "elca_bauteil_elements") = PyStr(<<>>)
    /\ last.ret = "CANCELLED"

\* C8: the list decoded from elca_bauteil_elements is the list LoadProject
\* stored in it, whatever was invoked since.
C8_HandOffRoundTrip ==
    (Truthy(SceneGet(scene, "elca_bauteil_elements")) /\ ~hist.edited) =>
        Deserialize(scene["elca_bauteil_elements"]) = [ok |-> TRUE, v |-> hist.stored]

\* C8 happens: a CreateIFCLibrary decoded a stored list of two elements, one
\* of them with two components and a matched layer thickness.
C8_Witness ==
    /\ Created
    /\ Len(hist.stored.v) = 2
    /\ \E i \in DOMAIN hist.stored.v :
          /\ Len(hist.stored.v[i].v[K.components].v) = 2
          /\ \E j \in DOMAIN hist.stored.v[i].v[K.components].v :
                K.layer_thickness \in DOMAIN hist.stored.v[i].v[K.components].v[j].v

\* C9: an element without components gets no entity: the file holds the
\* entities the elements with components get without it, one layer set, wall
\* type and pair of relations for each of them and one material and layer for
\* each of their components.
C9_EmptyElementsSkipped ==
    Created =>
        /\ CreatedFile = EmitLibrary(PyList(WithComponents(CreatedFrom))).file
        /\ \A type \in {"IfcMaterialLayerSet", "IfcWallType", "IfcRelAssociatesMaterial",
                        "IfcRelAssociatesLibrary"} :
              Len(Positions(CreatedFile, type)) = Len(WithComponents(CreatedFrom))
        /\ \A type \in {"IfcMaterial", "IfcMaterialLayer"} :
              Len(Positions(CreatedFile, type)) = Len(AllComponents(CreatedFrom))

\* C9 happens: the file was written for a list whose first element has no
\* component and whose second has some.
C9_Witness ==
    /\ Created
    /\ Len(CreatedFrom) = 2
    /\ CreatedFrom[1].v[K.components].v = <<>>
    /\ CreatedFrom[2].v[K.components].v # <<>>

\* C10: the file holds one IfcLibraryInformation and, for each element with a
\* component, one IfcMaterialLayerSet and one IfcWallType named
\* '<category_code> <name>', one IfcRelAssociatesMaterial that joins them and
\* one IfcRelAssociatesLibrary from the wall type to the library; the layer
\* set holds one IfcMaterialLayer for each component, in the component order.
C10_EntitiesPerElement ==
    Created =>
        LET elements == WithComponents(CreatedFrom)
            library == Positions(CreatedFile, "IfcLibraryInformation")
            layer_sets == Positions(CreatedFile, "IfcMaterialLayerSet")
            wall_types == Positions(CreatedFile, "IfcWallType")
            materials == Positions(CreatedFile, "IfcRelAssociatesMaterial")
            libraries == Positions(CreatedFile, "IfcRelAssociatesLibrary")
        IN /\ Len(library) = 1
           /\ Len(layer_sets) = Len(elements) /\ Len(wall_types) = Len(elements)
           /\ Len(materials) = Len(elements) /\ Len(libraries) = Len(elements)
           /\ Flatten([k \in DOMAIN layer_sets |-> CreatedFile[layer_sets[k]].MaterialLayers])
                 = Positions(CreatedFile, "IfcMaterialLayer")
           /\ \A k \in DOMAIN elements :
                 LET title == elements[k].v[K.category_code].v \o <<" ">>
                                 \o elements[k].v[K.name].v
                     components == elements[k].v[K.components].v
                     layers == CreatedFile[layer_sets[k]].MaterialLayers
                 IN /\ CreatedFile[layer_sets[k]].LayerSetName = title
                    /\ CreatedFile[wall_types[k]].Name = title
                    /\ CreatedFile[materials[k]].RelatedObjects = <<wall_types[k]>>
                    /\ CreatedFile[materials[k]].RelatingMaterial = layer_sets[k]
                    /\ CreatedFile[libraries[k]].RelatedObjects = <<wall_types[k]>>
                    /\ CreatedFile[libraries[k]].RelatingLibrary = library[1]
                    /\ Len(layers) = Len(components)
                    /\ \A j \in DOMAIN components :
                          CreatedFile[layers[j]].Name = components[j].v[K.name]

\* C10 happens: the file was written for two elements with components, one of
\* them with two components of different names.
C10_Witness ==
    /\ Created
    /\ Len(WithComponents(CreatedFrom)) = 2
    /\ \E k \in DOMAIN CreatedFrom :
          /\ Len(CreatedFrom[k].v[K.components].v) = 2
          /\ CreatedFrom[k].v[K.components].v[1].v[K.name]
                # CreatedFrom[k].v[K.components].v[2].v[K.name]

\* the quantity a generated one-component report was named after
QuantityOf(path) == CHOOSE q \in QuantityInputs : QuantityPath(q) = path

\* the number a quantity denotes, in hundredths of its unit
QuantityValue(q) == (IF q.neg THEN -1 ELSE 1) * (100 * q.whole + q.frac.v)

\* how many 1e-5 m a hundredth of the unit is: centimetres and metres, in
\* either case, and millimetres for every other unit and for no unit
UnitScale(unit) ==
    IF unit \in {<<" ", "c", "m">>, <<" ", "C", "m">>} THEN 10
    ELSE IF unit \in {<<" ", "m">>, <<" ", "M">>} THEN 1000
    ELSE 1

\* whether the last call emitted the report of a generated quantity
CreatedQuantity == Created /\ scene["elca_html_path"] \in QuantityPaths

\* the thickness of the only layer of the file the last call wrote
CreatedThickness == CreatedFile[Positions(CreatedFile, "IfcMaterialLayer")[1]].LayerThickness

\* C11: for a quantity '<number> <unit>', with a decimal comma or point and
\* the unit in any case, the emitted layer thickness is the number divided by
\* 1000 for mm, by 100 for cm and taken as it is for m; a number with another
\* unit or with no unit is converted as millimetres.
C11_QuantityConversion ==
    CreatedQuantity =>
        /\ Len(Positions(CreatedFile, "IfcMaterialLayer")) = 1
        /\ CreatedThickness = QuantityValue(QuantityOf(scene["elca_html_path"]))
                                * UnitScale(QuantityOf(scene["elca_html_path"]).unit)

\* a quantity in centimetres with a decimal comma and an upper-case letter has
\* been emitted
C11_Witness ==
    /\ CreatedQuantity
    /\ QuantityOf(scene["elca_html_path"]).unit = <<" ", "C", "m">>
    /\ QuantityOf(scene["elca_html_path"]).frac.text = <<",", "5">>
    /\ QuantityOf(scene["elca_html_path"]).whole = 120
    /\ ~QuantityOf(scene["elca_html_path"]).neg
    /\ CreatedThickness = 120500

\* whether the last call was a CreateIFCLibrary that decoded the stored list
Emitting ==
    /\ last.op = "CreateIFCLibrary"
    /\ dependencies_installed
    /\ Truthy(SceneGet(scene, "elca_html_path"))
    /\ Truthy(SceneGet(scene, "elca_xml_path"))
    /\ Truthy(SceneGet(scene, "elca_bauteil_elements"))
    /\ Deserialize(scene["elca_bauteil_elements"]).ok

\* the quantity of a component, None when it has none
QuantityIn(component) == DictGet(component, K.quantity, PyNone)

\* whether a text starts, after its blanks, with something that is no number
\* (a letter), or has nothing but blanks
NoNumber(text) ==
    \A i \in DOMAIN text :
        (\A j \in 1..(i - 1) : text[j] = " ") =>
            text[i] \in {" "} \cup Range(Lower) \cup Range(Upper)

\* C12: when every quantity of the stored list is a text or absent, the
\* emission raises nothing and writes one layer for every component of every
\* element with components, in order; the layer of a component whose quantity
\* is absent or empty is 0.0 m thick, and the layer of a component whose
\* quantity is not empty but has no token or a first token that is no number
\* is 0.01 m thick.
C12_UnparseableQuantity ==
    (Emitting /\ \A i \in DOMAIN AllComponents(CreatedFrom) :
                    QuantityIn(AllComponents(CreatedFrom)[i]).t \in {"None", "str"}) =>
        /\ last.wrote
        /\ Len(Positions(CreatedFile, "IfcMaterialLayer")) = Len(AllComponents(CreatedFrom))
        /\ \A i \in DOMAIN AllComponents(CreatedFrom) :
              LET quantity == QuantityIn(AllComponents(CreatedFrom)[i])
                  layer == CreatedFile[Positions(CreatedFile, "IfcMaterialLayer")[i]]
              IN /\ layer.Name = AllComponents(CreatedFrom)[i].v[K.name]
                 /\ ~Truthy(quantity) => layer.LayerThickness = 0
                 /\ (Truthy(quantity) /\ NoNumber(quantity.v)) =>
                        layer.LayerThickness = DefaultThickness

\* a list was emitted whose first element has a quantity that is no number,
\* one of blanks, an empty one, a component without quantity and then one of
\* 200 mm, and whose second element has a component of 200 mm
C12_Witness ==
    /\ Emitting
    /\ last.wrote
    /\ scene["elca_html_path"] = ReportPath(<<<<"X", "S", "Z", "N", "B">>, <<"B">>>>)
    /\ [i \in 1..6 |-> CreatedFile[Positions(CreatedFile, "IfcMaterialLayer")[i]].LayerThickness]
         = <<DefaultThickness, DefaultThickness, 0, 0, 20000, 20000>>

\* C13: the LayerThickness of every IfcMaterialLayer of a written file is not
\* negative, also when the quantity starts with a minus sign.
C13_ThicknessNotNegative ==
    Created =>
        \A i \in DOMAIN Positions(CreatedFile, "IfcMaterialLayer") :
            CreatedFile[Positions(CreatedFile, "IfcMaterialLayer")[i]].LayerThickness >= 0

\* whether the last call was a LoadProject that got a result from the extractor
Extracted ==
    /\ last.op = "LoadProject"
    /\ dependencies_installed
    /\ ~HtmlMissing(last.pre, exists)
    /\ Extract(scene["elca_html_path"], last.arg, exists).ok

\* the layer summary the extractor gave the last LoadProject
ExtractedSummary == Extract(scene["elca_html_path"], last.arg, exists).summary

\* C14: a LoadProject whose summary has total_layers = 0 or no total_layers
\* reports a WARNING and no ERROR, returns FINISHED, sets elca_matched_data to
\* "false" and stores the snapshot of the extracted list; with total_layers > 0
\* it reports INFO, sets elca_matched_data to "true" and elca_layer_data to
\* the text of the summary.
C14_NoLayersIsWarning ==
    Extracted =>
        IF K.total_layers \in DOMAIN ExtractedSummary /\ ExtractedSummary[K.total_layers] > 0
        THEN /\ Reported(last, "INFO")
             /\ last.ret = "FINISHED"
             /\ scene["elca_matched_data"] = Txt.true
             /\ scene["elca_layer_data"] = ReprDict(ExtractedSummary)
        ELSE /\ Reported(last, "WARNING")
             /\ ~Reported(last, "ERROR")
             /\ last.ret = "FINISHED"
             /\ scene["elca_matched_data"] = Txt.false
             /\ LET serialized_data ==
                        Serialize(Extract(scene["elca_html_path"], last.arg, exists).elements)
                IN serialized_data.ok => scene["elca_bauteil_elements"] = serialized_data.v

\* an export whose summary has no total_layers was loaded after one with
\* layers: a warning, "false" and a snapshot that decodes
C14_Witness ==
    /\ Extracted
    /\ last.arg = Path.e
    /\ K.total_layers \notin DOMAIN ExtractedSummary
    /\ SceneGet(last.pre, "elca_matched_data") = PyStr(Txt.true)
    /\ Reported(last, "WARNING")
    /\ scene["elca_matched_data"] = Txt.false
    /\ Deserialize(scene["elca_bauteil_elements"]).ok

\* the properties LoadProject writes
MatchProperties ==
    {"elca_xml_path", "elca_matched_data", "elca_layer_data", "elca_bauteil_elements"}

\* whether the last two calls were LoadProject on the same XML file, one
\* straight after the other, and both returned FINISHED
LoadedTwice ==
    /\ last.op = "LoadProject"
    /\ last.ret = "FINISHED"
    /\ last.prior.ret = "FINISHED"

\* C15: of two LoadProject calls that follow each other with the same
\* elca_html_path and the same XML file and both return FINISHED, the second
\* reports what the first reported (the same numbers of matched layers and of
\* elements) and leaves elca_xml_path, elca_matched_data, elca_layer_data and
\* elca_bauteil_elements as the first left them.
C15_LoadProjectIdempotent ==
    LoadedTwice =>
        /\ last.rep = last.prior.rep
        /\ \A k \in MatchProperties : SceneGet(scene, k) = SceneGet(last.pre, k)

\* an export with layers was matched twice in a row and both calls reported
\* the same number of matched layers
C15_Witness ==
    /\ LoadedTwice
    /\ last.arg = Path.p
    /\ Reported(last, "INFO")
    /\ last.rep[1].args[1] = <<"1">>
    /\ last.prior.rep = last.rep
    /\ "elca_layer_data" \in DOMAIN scene
    /\ Truthy(SceneGet(scene, "elca_bauteil_elements"))

\* whether the file at a path is the one the last call found there
Untouched(path) ==
    IF path \in DOMAIN last.files
    THEN path \in DOMAIN disk /\ disk[path] = last.files[path]
    ELSE path \notin DOMAIN disk

\* whether a file is missing from what the last call found, or has no entity
\* of the type
Lacks(path, type) ==
    path \in DOMAIN last.files => Positions(last.files[path], type) = <<>>

\* C16: a CreateIFCLibrary whose emission raises while it processes an element
\* (a quantity that is a number, not a text) leaves the output path as it was;
\* a call of attach_library_to_project, by the operator or by a script, that
\* cannot open one of the two files, finds no IfcLibraryInformation in the
\* library or no IfcProject in the project file leaves the project file as it
\* was.
C16_WriteAfterConstruction ==
    /\ (Emitting /\ \E i \in DOMAIN AllComponents(CreatedFrom) :
                        QuantityIn(AllComponents(CreatedFrom)[i]).t = "float") =>
            /\ last.ret = "CANCELLED"
            /\ Untouched(OutputPath(scene["elca_html_path"]))
            /\ Untouched(Path.j)
    /\ (last.op = "CreateIFCLibrary" /\ Lacks(Path.j, "IfcProject")) => Untouched(Path.j)
    /\ (last.op = "attach_library_to_project"
            /\ (Lacks(Path.j, "IfcProject") \/ Lacks(last.arg, "IfcLibraryInformation"))) =>
            Untouched(Path.j)

\* the emission raised at the second component of the second element, after
\* it had built the entities of the first, and no file was written
C16_Witness ==
    /\ Emitting
    /\ scene["elca_html_path"] = ReportPath(<<<<"B", "D">>, <<"B", "F">>>>)
    /\ last.arg = <<"attach_to_project">>
    /\ Path.j \in DOMAIN disk
    /\ Positions(disk[Path.j], "IfcProject") # <<>>
    /\ last.ret = "CANCELLED"
    /\ OutputPath(scene["elca_html_path"]) \notin DOMAIN disk
    /\ Untouched(Path.j)

\* whether the last call was a CreateIFCLibrary that handed its library to
\* attach_library_to_project and that found an IfcProject in the project file
Attached ==
    /\ Created
    /\ last.ret = "FINISHED"
    /\ last.arg = <<"attach_to_project">>
    /\ ProjectPath(scene) = Path.j
    /\ ~Lacks(Path.j, "IfcProject")

\* the entities of a type the last call added to the project file
Added(type) ==
    SelectSeq(Positions(disk[Path.j], type), LAMBDA i : i > Len(last.files[Path.j]))

\* of the layers of the layer set at a position of a file: name, name of the
\* material and thickness, in order
LayersOf(file, layer_set) ==
    [i \in DOMAIN file[layer_set].MaterialLayers |->
        <<file[file[layer_set].MaterialLayers[i]].Name,
          file[file[file[layer_set].MaterialLayers[i]].Material].Name,
          file[file[layer_set].MaterialLayers[i]].LayerThickness>>]

\* the relations of a type, among those at the positions rels of a file,
\* whose only related object is the wall type
RelationsOf(file, rels, wall_type) ==
    SelectSeq(rels, LAMBDA rel : file[rel].RelatedObjects = <<wall_type>>)

ProcessesWithUuid(component) ==
    SelectSeq(DictGet(component, K.lifecycle_processes, PyList(<<>>)).v,
              LAMBDA process : Truthy(DictGet(process, K.uuid, PyNone)))

\* the IfcMaterialProperties of a file on the material at a position, in order
PropertySetsOf(file, material) ==
    SelectSeq(Positions(file, "IfcMaterialProperties"), LAMBDA i : file[i].Material = material)

\* C18: in a written file the material of every component has, for every
\* lifecycle process of the component with a non-empty uuid and in their
\* order, one IfcMaterialProperties named pset_oekobaudat whose two properties
\* hold the uuid and the Oekobaudat URL of the uuid; it has no other, so that a
\* process without uuid, an absent list and an empty list create none.
C18_PropertySetPerProcess ==
    Created =>
        /\ Len(Positions(CreatedFile, "IfcMaterial")) = Len(AllComponents(CreatedFrom))
        /\ \A i \in DOMAIN AllComponents(CreatedFrom) :
              LET processes == ProcessesWithUuid(AllComponents(CreatedFrom)[i])
                  psets == PropertySetsOf(CreatedFile, Positions(CreatedFile, "IfcMaterial")[i])
              IN /\ Len(psets) = Len(processes)
                 /\ \A k \in DOMAIN processes :
                      /\ CreatedFile[psets[k]].Name = PyStr(Txt.pset)
                      /\ Len(CreatedFile[psets[k]].Properties) = 2
                      /\ CreatedFile[CreatedFile[psets[k]].Properties[1]].NominalValue
                            = processes[k].v[K.uuid].v
                      /\ CreatedFile[CreatedFile[psets[k]].Properties[2]].NominalValue
                            = Txt.url \o processes[k].v[K.uuid].v

\* a file was written from a component with four lifecycle processes, two of
\* them with a uuid, one with an empty uuid and one with none, followed by a
\* component without processes
C18_Witness ==
    /\ Created
    /\ scene["elca_html_path"] = ReportPath(<<<<"B", "D">>, <<"E", "D">>>>)
    /\ Len(DictGet(AllComponents(CreatedFrom)[1], K.lifecycle_processes, PyList(<<>>)).v) = 4
    /\ Len(PropertySetsOf(CreatedFile, Positions(CreatedFile, "IfcMaterial")[1])) = 2
    /\ Len(Positions(CreatedFile, "IfcMaterialProperties")) = 2
    /\ Len(Positions(CreatedFile, "IfcMaterial")) = 4

\* how many of the seven properties a scene holds
NumPresent(sc) == Cardinality({prop \in Range(elca_properties) : prop \in DOMAIN sc})

\* C19: after a ResetData that returns FINISHED none of the seven properties
\* is in the scene and the reported count is the number of them that were in
\* it before; a ResetData straight after one that returned FINISHED reports
\* 0; and as long as no LoadResults has returned FINISHED since the reset,
\* every LoadProject and every CreateIFCLibrary returns CANCELLED.
C19_ResetClearsEverything ==
    /\ (last.op = "ResetData" /\ last.ret = "FINISHED") =>
            /\ NumPresent(scene) = 0
            /\ last.rep[1].args = <<IntToStr(NumPresent(last.pre))>>
            /\ last.prior.ret = "FINISHED" => last.rep[1].args = <<<<"0">>>>
    /\ (~hist.lr /\ last.op \in {"LoadProject", "CreateIFCLibrary"}) => last.ret = "CANCELLED"

\* a reset returned FINISHED after it cleared the six properties the
\* operators write
C19_Witness ==
    /\ last.op = "ResetData"
    /\ last.ret = "FINISHED"
    /\ NumPresent(last.pre) = 6
    /\ last.rep[1].args = <<<<"6">>>>
    /\ scene = <<>>

\* the Oekobaudat uuids a file refers the material at a position to, by a
\* property set on the material or by a classification reference
ReferencesOf(file, material) ==
    {file[file[i].Properties[1]].NominalValue :
        i \in {j \in DOMAIN file : file[j].type = "IfcMaterialProperties"
                                    /\ file[j].Material = material}}
    \cup {file[file[i].RelatingClassification].Identification :
            i \in {j \in DOMAIN file : file[j].type = "IfcRelAssociatesClassification"
                                        /\ material \in Range(file[j].RelatedObjects)}}

\* C20: after attach_library_to_project every IfcMaterial copied into the
\* project file refers to the Oekobaudat uuids its counterpart refers to in
\* the library file.
C20_AttachKeepsLifecycleReference ==
    Attached =>
        /\ Len(Added("IfcMaterial")) = Len(Positions(CreatedFile, "IfcMaterial"))
        /\ \A k \in DOMAIN Added("IfcMaterial") :
              ReferencesOf(disk[Path.j], Added("IfcMaterial")[k])
                = ReferencesOf(CreatedFile, Positions(CreatedFile, "IfcMaterial")[k])


---------------------------------------------------------------------------
\* the reports of a message among those of the last call
ReportsOf(msg) == SelectSeq(last.rep, LAMBDA r : r.msg = msg)

\* C21: a CreateIFCLibrary with attach_to_project reports the INFO message
\* 'Attached library to project' only if attach_library_to_project wrote the
\* library into the project file: the project file is then on disk and holds
\* an IfcLibraryInformation it did not hold before the call.
C21_AttachedOnlyIfWritten ==
    (last.op = "CreateIFCLibrary" /\ last.arg = <<"attach_to_project">>
        /\ ReportsOf("Attached library to project") # <<>>) =>
            /\ ProjectPath(scene) \in DOMAIN disk
            /\ ~Untouched(ProjectPath(scene))
            /\ Added("IfcLibraryInformation") # <<>>


\* the first class of load_handler's list among the panel classes draws, if any
FirstFound(draws) ==
    {target_panel_classes[i] : i \in {j \in DOMAIN target_panel_classes :
        /\ target_panel_classes[j] \in DOMAIN draws
        /\ \A k \in 1..(j - 1) : target_panel_classes[k] \notin DOMAIN draws}}

\* the functions of a kind among the calls of the most recent panel draw
CallsOf(calls, fn) == SelectSeq(calls, LAMBDA f : f.fn = fn)

\* C22: the patch does not stack. A step that runs load_handler (register, or
\* a file load with the handler in load_post) changes the draw attribute of
\* at most one panel class, the first class of the target list that exists,
\* to a new_draw; after every step _original_draw_functions holds for every
\* name the host's own draw function of that class, every patched class has
\* an entry, and a draw of a patched panel calls draw_elca_ui once, first,
\* and the host's draw function next, never another new_draw.
C22_PatchDoesNotStack ==
    [][/\ last'.op \in {"register", "load_post"} =>
            \A name \in DOMAIN panel_draw :
                panel_draw'[name] # panel_draw[name] =>
                    /\ name \in FirstFound(panel_draw)
                    /\ panel_draw'[name].fn = "new_draw"
       /\ \A name \in DOMAIN original_draw_functions' :
            original_draw_functions'[name] = HostDraw(name)
       /\ \A name \in DOMAIN panel_draw' :
            panel_draw'[name].fn = "new_draw" => name \in DOMAIN original_draw_functions'
       /\ (last'.op = "draw" /\ panel_draw[drawn'.panel_name].fn = "new_draw") =>
            /\ Len(drawn'.calls) >= 2
            /\ drawn'.calls[1] = ElcaDraw(drawn'.panel_name)
            /\ drawn'.calls[2] = HostDraw(drawn'.panel_name)
            /\ Len(CallsOf(drawn'.calls, "draw_elca_ui")) = 1
            /\ CallsOf(drawn'.calls, "new_draw") = <<>>]_vars

\* both target classes exist, the first has been patched twice in a row and
\* the second not at all, and a draw of the first called draw_elca_ui and
\* then the host's draw function
C22_Witness ==
    /\ last.op = "draw"
    /\ DOMAIN panel_draw = Range(target_panel_classes)
    /\ panel_draw[target_panel_classes[1]] = new_draw(target_panel_classes[1], 2)
    /\ panel_draw[target_panel_classes[2]] = HostDraw(target_panel_classes[2])
    /\ original_draw_functions
        = [name \in {target_panel_classes[1]} |-> HostDraw(target_panel_classes[1])]
    /\ drawn = [panel_name |-> target_panel_classes[1],
                calls |-> <<ElcaDraw(target_panel_classes[1]),
                            HostDraw(target_panel_classes[1])>>,
                raised |-> FALSE]


\* C23: a CreateIFCLibrary that returns CANCELLED has written no file: the
\* files are those the call found.
C23_CancelledWritesNothing ==
    (last.op = "CreateIFCLibrary" /\ last.ret = "CANCELLED") => disk = last.files


\* C24: elca_layer_data is in the scene only while elca_matched_data is
\* "true", and after a LoadProject that returned FINISHED it is the text of
\* the summary that call got from the extractor.
C24_LayerDataOfLastMatch ==
    "elca_layer_data" \in DOMAIN scene =>
        /\ SceneGet(scene, "elca_matched_data") = PyStr(Txt.true)
        /\ (Extracted /\ last.ret = "FINISHED") =>
                scene["elca_layer_data"] = ReprDict(ExtractedSummary)


\* C25: a CreateIFCLibrary called in a scene for which draw_elca_ui lays out
\* the 'Create IFC Library' control, and whose snapshot no user has edited,
\* passes every check before the library is created: it reports none of the
\* errors of these checks, and elca_bauteil_elements was a text that is not
\* empty and decodes to a list; and the control of LoadProject is enabled
\* only in a scene with elca_html_path.
C25_CreateOfferedWhenReady ==
    /\ (last.op = "CreateIFCLibrary" /\ ~hist.edited
            /\ draw_elca_ui(last.pre, dependencies_installed).create_ifc_library = "enabled") =>
            /\ ReportsOf("dependencies") = <<>>
            /\ ReportsOf("No HTML file loaded") = <<>>
            /\ ReportsOf("No XML file loaded") = <<>>
            /\ ReportsOf("No processed bauteil elements found") = <<>>
            /\ ReportsOf("Could not retrieve bauteil elements") = <<>>
            /\ Truthy(SceneGet(last.pre, "elca_bauteil_elements"))
            /\ Deserialize(last.pre["elca_bauteil_elements"]).ok
    /\ draw_elca_ui(scene, dependencies_installed).load_project = "enabled" =>
            Truthy(SceneGet(scene, "elca_html_path"))


\* C26: after unregister every panel class that was ever patched has the
\* host's own draw function, the one stored at its first patch, as its draw
\* attribute, and load_handler is not in load_post; and whatever the order of
\* register and unregister calls, load_handler is in load_post at most once.
C26_UnregisterRestores ==
    /\ last.op = "unregister" =>
            /\ \A name \in DOMAIN original_draw_functions :
                    /\ panel_draw[name] = original_draw_functions[name]
                    /\ panel_draw[name] = HostDraw(name)
            /\ "load_handler" \notin Range(load_post)
    /\ Len(SelectSeq(load_post, LAMBDA handler : handler = "load_handler")) <= 1

\* both target classes had been patched, a panel of the first had been drawn
\* with the patch, and unregister gave both their own draw function back
C26_Witness ==
    /\ last.op = "unregister"
    /\ DOMAIN original_draw_functions = Range(target_panel_classes)
    /\ \A name \in Range(target_panel_classes) : panel_draw[name] = HostDraw(name)
    /\ load_post = <<>>
    /\ drawn.panel_name = target_panel_classes[1]
    /\ Len(drawn.calls) = 2


\* C27: a draw of a patched panel calls the host's own draw function exactly
\* once, whether or not that function raises.
C27_OriginalDrawnOnce ==
    (last.op = "draw" /\ drawn.calls[1].fn = "draw_elca_ui") =>
        Len(CallsOf(drawn.calls, "draw")) = 1

====
